---- MODULE Spec2Model ----
(***************************************************************************)
(* Repo-lyzer: the interactive session engine of internal/ui/app.go.       *)
(*                                                                         *)
(* The session (MainModel) is the record m.  One step of Next is one call  *)
(* of MainModel.Update by the Bubble Tea runtime: with a key event, or     *)
(* with the one message of a Command that completes.  Commands run off     *)
(* the event loop and complete in any order, so a step delivers the        *)
(* message of any Command still in flight.                                 *)
(*                                                                         *)
(* Text is a sequence of one-character strings, so that the sanitizer and  *)
(* the owner/repo split are computed on the characters as the code does.   *)
(*                                                                         *)
(* Fields of MainModel that only the renderer reads (spinner, help,        *)
(* windowWidth, windowHeight, helpContent, settingsOption, appSettings,    *)
(* the contents of the tree view) are not part of the model, and neither   *)
(* are the spinner's tick messages and window-size messages.               *)
(*                                                                         *)
(* Two specifications run the same Update.  Spec: up to MaxInFlight        *)
(* Commands overlap, and the user types a well-formed identifier into an   *)
(* empty buffer.  SpecEditing: the user also types blanks and edits the    *)
(* buffers (Backspace, Ctrl+U, Ctrl+W), with one Command in flight less.   *)
(*                                                                         *)
(* The functions that Update only calls are also run on their own, from    *)
(* every input of a bounded set, with the record run holding the input     *)
(* and what came back.  SpecPipeline runs the closure of analyzeRepo or    *)
(* of compareRepos once against a collaborator scripted to fail any set    *)
(* of fetches.  SpecSanitize applies sanitizeRepoInput to a text and then  *)
(* to its own result.  SpecTracker calls NextStage() on one progress       *)
(* tracker more often than it has stages.                                  *)
(*                                                                         *)
(* The analysis cache of package cache is the record cache: its            *)
(* configuration, its index, the entry files of its directory, and the     *)
(* clock.  The session never calls it.  SpecCache runs the operations of   *)
(* one Cache in any order while the clock advances.                        *)
(*                                                                         *)
(* The favorites list of package ui is the record favorites: its items in  *)
(* order, and the clock.  SpecFavorites runs its operations in any order.  *)
(*                                                                         *)
(* SpecHistory starts the session from every history file of a bounded     *)
(* set and lets the user browse, delete and clear the history.  SpecFair   *)
(* is Spec with the runtime completing every Command in flight.            *)
(* SpecCommand runs the analyze command of the command line once, from     *)
(* every argument and collaborator script of a bounded set.                *)
(*                                                                         *)
(* The field stale of a Command in flight is bookkeeping of the model: it  *)
(* records that the session has left the loading state the Command was     *)
(* dispatched for.  Update never reads it.                                 *)
(***************************************************************************)
EXTENDS Integers, Sequences, FiniteSets, Bags, TLC

\* ------------------------------------------------------------------------
\* Bounds of the model
\* ------------------------------------------------------------------------

\* most Commands dispatched and not yet completed
MaxInFlight == 2

\* most entries the history is allowed to grow to
MaxHistory == 1

\* longest text the sanitizer is given, a host prefix not counted
MaxTextLen == 4

\* most stages a progress tracker is created with
MaxStages == 7

\* ------------------------------------------------------------------------
\* Text
\* ------------------------------------------------------------------------

NUL == "\\x00"

WhiteSpace == {" ", "\t", "\n", "\r"}

GithubMarker == <<"g", "i", "t", "h", "u", "b", ".", "c", "o", "m", "/">>

RECURSIVE TrimLeftSpace(_)
TrimLeftSpace(s) ==
    IF s # <<>> /\ Head(s) \in WhiteSpace THEN TrimLeftSpace(Tail(s)) ELSE s

RECURSIVE TrimRightOf(_, _)
TrimRightOf(s, cutset) ==
    IF s # <<>> /\ s[Len(s)] \in cutset
    THEN TrimRightOf(SubSeq(s, 1, Len(s) - 1), cutset)
    ELSE s

\* strings.TrimSpace
TrimSpace(s) == TrimRightOf(TrimLeftSpace(s), WhiteSpace)

\* strings.Index: the first position at which sub occurs in s, 0 when none
IndexOf(s, sub) ==
    LET hits == {i \in 1..(Len(s) - Len(sub) + 1) :
                    SubSeq(s, i, i + Len(sub) - 1) = sub}
    IN IF hits = {} THEN 0 ELSE CHOOSE i \in hits : \A j \in hits : i <= j

\* strings.LastIndex for a one-character separator, 0 when none
LastIndexOf(s, c) ==
    LET hits == {i \in 1..Len(s) : s[i] = c}
    IN IF hits = {} THEN 0 ELSE CHOOSE i \in hits : \A j \in hits : i >= j

\* strings.Contains
Contains(s, sub) == IndexOf(s, sub) # 0

\* strings.Split for a non-empty separator: the pieces between the
\* occurrences of sep, found left to right without overlap
RECURSIVE Split(_, _)
Split(s, sep) ==
    LET i == IndexOf(s, sep)
    IN IF i = 0
       THEN <<s>>
       ELSE <<SubSeq(s, 1, i - 1)>> \o Split(SubSeq(s, i + Len(sep), Len(s)), sep)

\* strings.TrimSuffix
TrimSuffix(s, suf) ==
    IF Len(s) >= Len(suf) /\ SubSeq(s, Len(s) - Len(suf) + 1, Len(s)) = suf
    THEN SubSeq(s, 1, Len(s) - Len(suf))
    ELSE s

\* strings.ReplaceAll(s, c, "")
RemoveAll(s, c) == SelectSeq(s, LAMBDA x : x # c)

\* the buffer without its last byte: s[:len(s)-1]
DropLast(s) == IF s = <<>> THEN s ELSE SubSeq(s, 1, Len(s) - 1)

\* Ctrl+W: delete the last word
DeleteWord(s) ==
    LET t   == TrimRightOf(s, {" "})
        idx == LastIndexOf(t, " ")
    IN IF idx > 0 THEN SubSeq(t, 1, idx) ELSE <<>>

sanitizeRepoInput(input) ==
    LET noNul   == RemoveAll(input, NUL)
        trimmed == TrimSpace(noNul)
        parts   == Split(trimmed, GithubMarker)
        clean   == IF Contains(trimmed, GithubMarker) /\ Len(parts) = 2
                   THEN parts[2]
                   ELSE trimmed
    IN TrimSuffix(clean, <<"/">>)

\* An owner/repo token: one slash, a non-empty owner and a non-empty
\* repository name, no whitespace and no null byte.
WellFormed(s) ==
    LET parts == Split(s, <<"/">>)
    IN /\ Len(parts) = 2
       /\ parts[1] # <<>>
       /\ parts[2] # <<>>
       /\ \A i \in 1..Len(s) : s[i] \notin WhiteSpace \cup {NUL}

\* ------------------------------------------------------------------------
\* Values: errors, results, messages, Commands
\* ------------------------------------------------------------------------

\* An error value: the wrapping prefix, the text the prefix names (a
\* repository name, or empty) and the wrapped cause.
Err(prefix, arg, cause) == [prefix |-> prefix, arg |-> arg, cause |-> cause]

NilErr == Err("nil", <<>>, "")

\* what a failing collaborator call returns
CollabErr == "GitHub API error"

ErrValidation ==
    Err("please enter a valid repository (owner/repo or GitHub URL)", <<>>, "")

\* a nil *github.Repo
NilRepo == <<"<nil>">>

\* AnalysisResult: the repository it is about (its FullName) and the fields
\* whose fetch failed and that were left empty.
Result(fullName, missing) == [Repo |-> fullName, missing |-> missing]

\* the zero AnalysisResult
NilData == Result(NilRepo, {})

\* a nil *CompareResult
NilCompare == [nil |-> TRUE, Repo1 |-> NilData, Repo2 |-> NilData]

\* a nil *ProgressTracker
NilTracker == [nil |-> TRUE, current |-> 0]

\* a nil *History
NilHistory == [nil |-> TRUE, Entries |-> <<>>]

BaseMsg ==
    [type |-> "none", key |-> "", keyType |-> "", runes |-> <<>>,
     err |-> NilErr, text |-> "", result |-> NilData, result2 |-> NilData,
     stale |-> FALSE]

\* tea.KeyMsg: String(), Type and Runes
KeyMsg(key, keyType, runes) ==
    [BaseMsg EXCEPT !.type = "KeyMsg", !.key = key, !.keyType = keyType,
                    !.runes = runes]

AnalysisResultMsg(r) == [BaseMsg EXCEPT !.type = "AnalysisResult", !.result = r]

CompareResultMsg(r1, r2) ==
    [BaseMsg EXCEPT !.type = "CompareResult", !.result = r1, !.result2 = r2]

ErrorMsg(e) == [BaseMsg EXCEPT !.type = "error", !.err = e]

StringMsg(text) == [BaseMsg EXCEPT !.type = "string", !.text = text]

ExportMsg(e, text) == [BaseMsg EXCEPT !.type = "exportMsg", !.err = e, !.text = text]

\* A Command in flight.  stale is a history flag that no code reads: it is
\* set when the session leaves the loading state the Command was
\* dispatched for while the Command is still in flight.
Command(kind, text, repo1, repo2) ==
    [kind |-> kind, text |-> text, repo1 |-> repo1, repo2 |-> repo2,
     stale |-> FALSE]

QuitCmd == Command("quit", "", <<>>, <<>>)

SignalCmd(text) == Command("signal", text, <<>>, <<>>)

ExportCmd(text) == Command("export", text, <<>>, <<>>)

\* ------------------------------------------------------------------------
\* The progress tracker
\* ------------------------------------------------------------------------

\* A tracker: the number of its stages, the cursor, and the position the
\* cursor is clamped at: the final stage, or one past it when the final
\* stage can be passed as the others are.
NewProgressTracker(count, limit) ==
    [count |-> count, current |-> 0, limit |-> limit]

\* the positions a tracker of count stages clamps its cursor at
ClampPositions(count) == {count - 1, count}

\* NextStage() with the cursor going back to the first stage after the
\* last one
NextStageWrap(t) ==
    IF t.current < t.limit THEN [t EXCEPT !.current = @ + 1]
    ELSE [t EXCEPT !.current = 0]

\* NextStage(): the cursor advances by one stage and stays where it is
\* once it is at the clamp position
NextStage(t) ==
    IF t.current < t.limit THEN [t EXCEPT !.current = @ + 1] ELSE t

\* GetAllStages(): a stage is complete when the cursor has passed it and
\* active when the cursor is at it
GetAllStages(t) ==
    [i \in 1..t.count |->
        [IsComplete |-> i - 1 < t.current, IsActive |-> i - 1 = t.current]]

\* the tracker after n calls of NextStage()
RECURSIVE AfterCalls(_, _)
AfterCalls(t, n) == IF n = 0 THEN t ELSE AfterCalls(NextStage(t), n - 1)

\* ------------------------------------------------------------------------
\* The pipelines: what a Command computes when it runs
\* ------------------------------------------------------------------------

FetchOrder == <<"repo", "commits", "contributors", "languages", "fileTree">>

\* The collaborator: the remote API answers a repository fetch only for an
\* owner/repo token, and any fetch named in fails is scripted to fail.
GetOk(fetch, repoName, fails) == fetch \notin fails /\ WellFormed(repoName)

\* One run of a closure: the one message it returns, the collaborator
\* calls it made in order (the fetches, and "scores" for the computation
\* of the three scores), and the number of NextStage() calls made.
Run(msg, calls, nextStages) ==
    [msg |-> msg, calls |-> calls, nextStages |-> nextStages]

\* analyzeRepo with the file tree fetched at best effort: a failure of
\* that fetch leaves the field empty in the result
analyzeRepoPartial(repoName, fails) ==
    LET parts == Split(repoName, <<"/">>)
        ok(f) == GetOk(f, repoName, fails)
    IN IF Len(parts) # 2
       THEN Run(ErrorMsg(Err("repository must be in owner/repo format", <<>>, "")),
                <<>>, 0)
       ELSE IF ~ok("repo")
       THEN Run(ErrorMsg(Err("", <<>>, CollabErr)), SubSeq(FetchOrder, 1, 1), 0)
       ELSE IF ~ok("commits")
       THEN Run(ErrorMsg(Err("failed to get commits", <<>>, CollabErr)),
                SubSeq(FetchOrder, 1, 2), 1)
       ELSE IF ~ok("contributors")
       THEN Run(ErrorMsg(Err("failed to get contributors", <<>>, CollabErr)),
                SubSeq(FetchOrder, 1, 3), 2)
       ELSE IF ~ok("languages")
       THEN Run(ErrorMsg(Err("failed to get languages", <<>>, CollabErr)),
                SubSeq(FetchOrder, 1, 4), 3)
       ELSE Run(AnalysisResultMsg(Result(repoName, fails \cap {"fileTree"})),
                FetchOrder \o <<"scores">>, 6)

\* analyzeRepo with the five fetches all invoked before their errors are
\* looked at
analyzeRepoFetchAll(repoName, fails) ==
    LET parts == Split(repoName, <<"/">>)
        ok(f) == GetOk(f, repoName, fails)
    IN IF Len(parts) # 2
       THEN Run(ErrorMsg(Err("repository must be in owner/repo format", <<>>, "")),
                <<>>, 0)
       ELSE IF ~ok("repo")
       THEN Run(ErrorMsg(Err("", <<>>, CollabErr)), FetchOrder, 0)
       ELSE IF ~ok("commits")
       THEN Run(ErrorMsg(Err("failed to get commits", <<>>, CollabErr)), FetchOrder, 1)
       ELSE IF ~ok("contributors")
       THEN Run(ErrorMsg(Err("failed to get contributors", <<>>, CollabErr)),
                FetchOrder, 2)
       ELSE IF ~ok("languages")
       THEN Run(ErrorMsg(Err("failed to get languages", <<>>, CollabErr)),
                FetchOrder, 3)
       ELSE IF ~ok("fileTree")
       THEN Run(ErrorMsg(Err("failed to get file tree", <<>>, CollabErr)),
                FetchOrder, 3)
       ELSE Run(AnalysisResultMsg(Result(repoName, {})), FetchOrder \o <<"scores">>, 6)

\* analyzeRepo with NextStage() called after each of the five fetches
analyzeRepoStagePerFetch(repoName, fails) ==
    LET parts == Split(repoName, <<"/">>)
        ok(f) == GetOk(f, repoName, fails)
    IN IF Len(parts) # 2
       THEN Run(ErrorMsg(Err("repository must be in owner/repo format", <<>>, "")),
                <<>>, 0)
       ELSE IF ~ok("repo")
       THEN Run(ErrorMsg(Err("", <<>>, CollabErr)), SubSeq(FetchOrder, 1, 1), 0)
       ELSE IF ~ok("commits")
       THEN Run(ErrorMsg(Err("failed to get commits", <<>>, CollabErr)),
                SubSeq(FetchOrder, 1, 2), 1)
       ELSE IF ~ok("contributors")
       THEN Run(ErrorMsg(Err("failed to get contributors", <<>>, CollabErr)),
                SubSeq(FetchOrder, 1, 3), 2)
       ELSE IF ~ok("languages")
       THEN Run(ErrorMsg(Err("failed to get languages", <<>>, CollabErr)),
                SubSeq(FetchOrder, 1, 4), 3)
       ELSE IF ~ok("fileTree")
       THEN Run(ErrorMsg(Err("failed to get file tree", <<>>, CollabErr)),
                SubSeq(FetchOrder, 1, 5), 4)
       ELSE Run(AnalysisResultMsg(Result(repoName, {})), FetchOrder \o <<"scores">>, 7)

analyzeRepo(repoName, fails) ==
    LET parts == Split(repoName, <<"/">>)
        ok(f) == GetOk(f, repoName, fails)
    IN IF Len(parts) # 2
       THEN Run(ErrorMsg(Err("repository must be in owner/repo format", <<>>, "")),
                <<>>, 0)
       ELSE IF ~ok("repo")
       THEN Run(ErrorMsg(Err("", <<>>, CollabErr)), SubSeq(FetchOrder, 1, 1), 0)
       ELSE IF ~ok("commits")
       THEN Run(ErrorMsg(Err("failed to get commits", <<>>, CollabErr)),
                SubSeq(FetchOrder, 1, 2), 1)
       ELSE IF ~ok("contributors")
       THEN Run(ErrorMsg(Err("failed to get contributors", <<>>, CollabErr)),
                SubSeq(FetchOrder, 1, 3), 2)
       ELSE IF ~ok("languages")
       THEN Run(ErrorMsg(Err("failed to get languages", <<>>, CollabErr)),
                SubSeq(FetchOrder, 1, 4), 3)
       ELSE IF ~ok("fileTree")
       THEN Run(ErrorMsg(Err("failed to get file tree", <<>>, CollabErr)),
                SubSeq(FetchOrder, 1, 5), 3)
       ELSE Run(AnalysisResultMsg(Result(repoName, {})), FetchOrder \o <<"scores">>, 6)

\* the fetches after the repository metadata, best effort in compareRepos
SideFetches == {"commits", "contributors", "languages", "fileTree"}

\* compareRepos with every fetch of the first side fail-fast
compareReposFailFast(repo1Name, repo2Name, fails1, fails2) ==
    LET parts1 == Split(repo1Name, <<"/">>)
        parts2 == Split(repo2Name, <<"/">>)
        side1  == <<"1:repo", "1:commits", "1:contributors", "1:languages",
                    "1:fileTree", "1:scores">>
        side2  == <<"2:repo", "2:commits", "2:contributors", "2:languages",
                    "2:fileTree", "2:scores">>
    IN IF Len(parts1) # 2
       THEN Run(ErrorMsg(Err("first repository must be in owner/repo format", <<>>, "")),
                <<>>, 0)
       ELSE IF Len(parts2) # 2
       THEN Run(ErrorMsg(Err("second repository must be in owner/repo format", <<>>, "")),
                <<>>, 0)
       ELSE IF ~GetOk("repo", repo1Name, fails1)
       THEN Run(ErrorMsg(Err("failed to fetch", repo1Name, CollabErr)),
                SubSeq(side1, 1, 1), 0)
       ELSE IF fails1 \cap SideFetches # {}
       THEN Run(ErrorMsg(Err("failed to fetch", repo1Name, CollabErr)),
                SubSeq(side1, 1, 5), 0)
       ELSE IF ~GetOk("repo", repo2Name, fails2)
       THEN Run(ErrorMsg(Err("failed to fetch", repo2Name, CollabErr)),
                side1 \o SubSeq(side2, 1, 1), 0)
       ELSE Run(CompareResultMsg(Result(repo1Name, fails1 \cap SideFetches),
                                 Result(repo2Name, fails2 \cap SideFetches)),
                side1 \o side2, 0)

compareRepos(repo1Name, repo2Name, fails1, fails2) ==
    LET parts1 == Split(repo1Name, <<"/">>)
        parts2 == Split(repo2Name, <<"/">>)
        side1  == <<"1:repo", "1:commits", "1:contributors", "1:languages",
                    "1:fileTree", "1:scores">>
        side2  == <<"2:repo", "2:commits", "2:contributors", "2:languages",
                    "2:fileTree", "2:scores">>
    IN IF Len(parts1) # 2
       THEN Run(ErrorMsg(Err("first repository must be in owner/repo format", <<>>, "")),
                <<>>, 0)
       ELSE IF Len(parts2) # 2
       THEN Run(ErrorMsg(Err("second repository must be in owner/repo format", <<>>, "")),
                <<>>, 0)
       ELSE IF ~GetOk("repo", repo1Name, fails1)
       THEN Run(ErrorMsg(Err("failed to fetch", repo1Name, CollabErr)),
                SubSeq(side1, 1, 1), 0)
       ELSE IF ~GetOk("repo", repo2Name, fails2)
       THEN Run(ErrorMsg(Err("failed to fetch", repo2Name, CollabErr)),
                side1 \o SubSeq(side2, 1, 1), 0)
       ELSE Run(CompareResultMsg(Result(repo1Name, fails1 \cap SideFetches),
                                 Result(repo2Name, fails2 \cap SideFetches)),
                side1 \o side2, 0)

\* ------------------------------------------------------------------------
\* The session and its sub-models
\* ------------------------------------------------------------------------

stateMenu          == "menu"
stateInput         == "input"
stateLoading       == "loading"
stateDashboard     == "dashboard"
stateTree          == "tree"
stateSettings      == "settings"
stateHelp          == "help"
stateHistory       == "history"
stateCompareInput  == "compareInput"
stateCompareLoading == "compareLoading"
stateCompareResult == "compareResult"

\* a Go panic (index out of range) ends the program
statePanic         == "panic"

viewOverview  == 0
viewAPIStatus == 6

NewDashboardModel ==
    [data |-> NilData, BackToMenu |-> FALSE, showExport |-> FALSE,
     showHelp |-> FALSE, currentView |-> viewOverview, statusMsg |-> ""]

NewMainModel ==
    [state          |-> stateMenu,
     menu           |-> [Done |-> FALSE],
     input          |-> <<>>,
     compareInput1  |-> <<>>,
     compareInput2  |-> <<>>,
     compareStep    |-> 0,
     dashboard      |-> NewDashboardModel,
     tree           |-> [Done |-> FALSE],
     progress       |-> NilTracker,
     err            |-> NilErr,
     analysisType   |-> "",
     compareResult  |-> NilCompare,
     history        |-> NilHistory,
     historyCursor  |-> 0]

\* What one Update call returns: the new model and the Commands of the
\* batch; disk is the history file after the call, quit tells that the
\* returned Command is tea.Quit.
R(mm, cmds, disk) == [m |-> mm, cmds |-> cmds, disk |-> disk, quit |-> FALSE]

\* the closure analyzeRepo(repoName) returns, not yet run
AnalyzeCmd(repoName) == Command("analyzeRepo", "", repoName, <<>>)

\* the closure compareRepos(repo1Name, repo2Name) returns, not yet run
CompareCmd(repo1Name, repo2Name) == Command("compareRepos", "", repo1Name, repo2Name)

\* --- the menu: what the user selects is an input of the step ---

NoChoice == [opt |-> -1, sub |-> "", cur |-> 0]

MenuChoices ==
    {[opt |-> 0, sub |-> "analyze", cur |-> c] : c \in {0}}
    \cup {[opt |-> 1, sub |-> "", cur |-> 0],
          [opt |-> 2, sub |-> "", cur |-> 0],
          [opt |-> 3, sub |-> "settings", cur |-> 0],
          [opt |-> 4, sub |-> "help", cur |-> 0],
          [opt |-> 5, sub |-> "", cur |-> 0]}

\* MenuModel.Update: Enter on an entry completes the selection.
MenuUpdate(menu, msg, choice) ==
    IF msg.type = "KeyMsg" /\ msg.key = "enter" /\ choice # NoChoice
    THEN [Done |-> TRUE, SelectedOption |-> choice.opt,
          submenuType |-> choice.sub, submenuCursor |-> choice.cur]
    ELSE [Done |-> menu.Done, SelectedOption |-> -1,
          submenuType |-> "", submenuCursor |-> 0]

\* TreeModel.Update: Escape asks to go back to the dashboard.
TreeUpdate(tree, msg) ==
    IF msg.type = "KeyMsg" /\ msg.key = "esc"
    THEN [tree EXCEPT !.Done = TRUE]
    ELSE tree

\* --- the history store ---

LoadHistory(disk) == [nil |-> FALSE, Entries |-> disk]

AddEntry(h, result) == [h EXCEPT !.Entries = @ \o <<result.Repo>>]

\* History.Delete(index), index counted from 0
DeleteEntry(h, index) ==
    [h EXCEPT !.Entries = SubSeq(@, 1, index) \o SubSeq(@, index + 2, Len(@))]

ClearHistory(h) == [h EXCEPT !.Entries = <<>>]

\* History.Save: the whole list is written back
SaveHistory(h) == h.Entries

\* --- the dashboard ---

ViewKeys == [k \in {"1", "2", "3", "4", "5", "6", "7"} |->
                CASE k = "1" -> 0 [] k = "2" -> 1 [] k = "3" -> 2 [] k = "4" -> 3
                  [] k = "5" -> 4 [] k = "6" -> 5 [] k = "7" -> 6]

\* DashboardModel.Update: the new dashboard and the Command it returns
DashboardUpdate(d, msg) ==
    LET same == [d |-> d, cmds |-> <<>>]
    IN CASE msg.type = "exportMsg" ->
              [d |-> [d EXCEPT !.statusMsg = IF msg.err # NilErr
                                             THEN msg.err.cause ELSE msg.text],
               cmds |-> <<SignalCmd("clear_status")>>]
         [] msg.type = "string" ->
              IF msg.text = "clear_status"
              THEN [d |-> [d EXCEPT !.statusMsg = ""], cmds |-> <<>>]
              ELSE same
         [] msg.type = "KeyMsg" ->
              CASE msg.key \in {"q", "esc"} ->
                     [d |-> IF d.showHelp THEN [d EXCEPT !.showHelp = FALSE]
                            ELSE IF d.showExport THEN [d EXCEPT !.showExport = FALSE]
                            ELSE IF d.currentView # viewOverview
                            THEN [d EXCEPT !.currentView = viewOverview]
                            ELSE [d EXCEPT !.BackToMenu = TRUE],
                      cmds |-> <<>>]
                [] msg.key \in {"?", "h"} ->
                     [d |-> [d EXCEPT !.showHelp = ~@], cmds |-> <<>>]
                [] msg.key = "e" ->
                     [d |-> [d EXCEPT !.showExport = ~@], cmds |-> <<>>]
                [] msg.key = "j" ->
                     IF d.showExport
                     THEN [d |-> d, cmds |-> <<ExportCmd("analysis.json")>>]
                     ELSE same
                [] msg.key = "m" ->
                     IF d.showExport
                     THEN [d |-> d, cmds |-> <<ExportCmd("analysis.md")>>]
                     ELSE same
                [] msg.key = "f" ->
                     [d |-> d, cmds |-> <<SignalCmd("switch_to_tree")>>]
                [] msg.key = "r" ->
                     IF d.data.Repo # NilRepo
                     THEN [d |-> d, cmds |-> <<SignalCmd("refresh_data")>>]
                     ELSE same
                [] msg.key \in DOMAIN ViewKeys ->
                     [d |-> [d EXCEPT !.currentView = ViewKeys[msg.key],
                                      !.showHelp = FALSE, !.showExport = FALSE],
                      cmds |-> <<>>]
                [] msg.key \in {"right", "l"} ->
                     IF ~d.showHelp /\ ~d.showExport /\ d.currentView < viewAPIStatus
                     THEN [d |-> [d EXCEPT !.currentView = @ + 1], cmds |-> <<>>]
                     ELSE same
                [] msg.key = "left" ->
                     IF ~d.showHelp /\ ~d.showExport /\ d.currentView > viewOverview
                     THEN [d |-> [d EXCEPT !.currentView = @ - 1], cmds |-> <<>>]
                     ELSE same
                [] OTHER -> same
         [] OTHER -> same

\* ------------------------------------------------------------------------
\* MainModel.Update
\* ------------------------------------------------------------------------

\* UpdateGlobal with "refresh_data" dispatching the analysis and leaving
\* the state as it is
UpdateGlobalNoLoading(mm, msg) ==
    CASE msg.type = "KeyMsg" /\ msg.key = "ctrl+c" ->
           [m |-> mm, cmds |-> <<QuitCmd>>, quit |-> TRUE]
      [] msg.type = "KeyMsg" /\ msg.key = "q" /\ mm.state = stateMenu ->
           [m |-> mm, cmds |-> <<QuitCmd>>, quit |-> TRUE]
      [] msg.type = "string" /\ msg.text = "switch_to_tree" ->
           [m |-> [mm EXCEPT !.state = stateTree], cmds |-> <<>>, quit |-> FALSE]
      [] msg.type = "string" /\ msg.text = "refresh_data" ->
           IF mm.dashboard.data.Repo # NilRepo
           THEN [m |-> mm,
                 cmds |-> <<AnalyzeCmd(mm.dashboard.data.Repo)>>, quit |-> FALSE]
           ELSE [m |-> mm, cmds |-> <<>>, quit |-> FALSE]
      [] OTHER -> [m |-> mm, cmds |-> <<>>, quit |-> FALSE]

\* UpdateGlobal with the q key quitting from every state
UpdateGlobalQuitAnywhere(mm, msg) ==
    CASE msg.type = "KeyMsg" /\ msg.key \in {"ctrl+c", "q"} ->
           [m |-> mm, cmds |-> <<QuitCmd>>, quit |-> TRUE]
      [] msg.type = "string" /\ msg.text = "switch_to_tree" ->
           [m |-> [mm EXCEPT !.state = stateTree], cmds |-> <<>>, quit |-> FALSE]
      [] msg.type = "string" /\ msg.text = "refresh_data" ->
           IF mm.dashboard.data.Repo # NilRepo
           THEN [m |-> [mm EXCEPT !.state = stateLoading],
                 cmds |-> <<AnalyzeCmd(mm.dashboard.data.Repo)>>, quit |-> FALSE]
           ELSE [m |-> mm, cmds |-> <<>>, quit |-> FALSE]
      [] OTHER -> [m |-> mm, cmds |-> <<>>, quit |-> FALSE]

\* the first switch of Update, on the type of the message: the quit keys
\* and the string signals, which no state guards
UpdateGlobal(mm, msg) ==
    CASE msg.type = "KeyMsg" /\ msg.key = "ctrl+c" ->
           [m |-> mm, cmds |-> <<QuitCmd>>, quit |-> TRUE]
      [] msg.type = "KeyMsg" /\ msg.key = "q" /\ mm.state = stateMenu ->
           [m |-> mm, cmds |-> <<QuitCmd>>, quit |-> TRUE]
      [] msg.type = "string" /\ msg.text = "switch_to_tree" ->
           [m |-> [mm EXCEPT !.state = stateTree], cmds |-> <<>>, quit |-> FALSE]
      [] msg.type = "string" /\ msg.text = "refresh_data" ->
           IF mm.dashboard.data.Repo # NilRepo
           THEN [m |-> [mm EXCEPT !.state = stateLoading],
                 cmds |-> <<AnalyzeCmd(mm.dashboard.data.Repo)>>, quit |-> FALSE]
           ELSE [m |-> mm, cmds |-> <<>>, quit |-> FALSE]
      [] OTHER -> [m |-> mm, cmds |-> <<>>, quit |-> FALSE]

analysisTypes == <<"quick", "detailed", "custom">>

UpdateMenu(mm, msg, disk, choice) ==
    LET newMenu == MenuUpdate(mm.menu, msg, choice)
        m1      == [mm EXCEPT !.menu = [Done |-> newMenu.Done]]
        reset   == [m1 EXCEPT !.menu.Done = FALSE]
    IN IF ~newMenu.Done
       THEN R(m1, <<>>, disk)
       ELSE CASE newMenu.SelectedOption = 0 ->
                   IF newMenu.submenuType = "analyze"
                   THEN R([reset EXCEPT
                             !.analysisType =
                                 IF newMenu.submenuCursor < Len(analysisTypes)
                                 THEN analysisTypes[newMenu.submenuCursor + 1]
                                 ELSE @,
                             !.state = stateInput], <<>>, disk)
                   ELSE R(reset, <<>>, disk)
              [] newMenu.SelectedOption = 1 ->
                   R([reset EXCEPT !.state = stateCompareInput,
                                   !.compareStep = 0,
                                   !.compareInput1 = <<>>,
                                   !.compareInput2 = <<>>], <<>>, disk)
              [] newMenu.SelectedOption = 2 ->
                   R([reset EXCEPT !.state = stateHistory,
                                   !.historyCursor = 0,
                                   !.history = LoadHistory(disk)], <<>>, disk)
              [] newMenu.SelectedOption = 3 ->
                   IF newMenu.submenuType = "settings"
                   THEN R([reset EXCEPT !.state = stateSettings], <<>>, disk)
                   ELSE R(reset, <<>>, disk)
              [] newMenu.SelectedOption = 4 ->
                   IF newMenu.submenuType = "help"
                   THEN R([reset EXCEPT !.state = stateHelp], <<>>, disk)
                   ELSE R(reset, <<>>, disk)
              [] newMenu.SelectedOption = 5 ->
                   [R(m1, <<QuitCmd>>, disk) EXCEPT !.quit = TRUE]
              [] OTHER -> R(m1, <<>>, disk)

\* UpdateInput with Enter testing the buffer as typed, not as sanitized
UpdateInputRaw(mm, msg, disk) ==
    IF msg.type = "KeyMsg" /\ msg.keyType = "KeyEnter"
    THEN IF mm.input # <<>>
         THEN R([mm EXCEPT !.input = sanitizeRepoInput(@),
                           !.err = NilErr,
                           !.state = stateLoading],
                <<AnalyzeCmd(sanitizeRepoInput(mm.input))>>, disk)
         ELSE R([mm EXCEPT !.err = ErrValidation], <<>>, disk)
    ELSE R(mm, <<>>, disk)

UpdateInput(mm, msg, disk) ==
    IF msg.type # "KeyMsg"
    THEN R(mm, <<>>, disk)
    ELSE CASE msg.keyType = "KeyEnter" ->
                LET cleanInput == sanitizeRepoInput(mm.input)
                IN IF cleanInput # <<>>
                   THEN R([mm EXCEPT !.input = cleanInput,
                                     !.err = NilErr,
                                     !.state = stateLoading],
                          <<AnalyzeCmd(cleanInput)>>, disk)
                   ELSE R([mm EXCEPT !.err = ErrValidation], <<>>, disk)
           [] msg.keyType = "KeyBackspace" ->
                R([mm EXCEPT !.input = DropLast(@)], <<>>, disk)
           [] msg.keyType = "KeyRunes" ->
                R([mm EXCEPT !.input = @ \o msg.runes], <<>>, disk)
           [] msg.keyType = "KeyEsc" ->
                R([mm EXCEPT !.state = stateMenu], <<>>, disk)
           [] msg.keyType = "KeyCtrlU" ->
                R([mm EXCEPT !.input = <<>>], <<>>, disk)
           [] msg.keyType = "KeyCtrlW" ->
                R([mm EXCEPT !.input = DeleteWord(@)], <<>>, disk)
           [] OTHER -> R(mm, <<>>, disk)

\* UpdateCompareInput with Enter not testing the buffer that is edited
UpdateCompareInputNoGuard(mm, msg, disk) ==
    IF msg.type = "KeyMsg" /\ msg.keyType = "KeyEnter"
    THEN IF mm.compareStep = 0
         THEN R([mm EXCEPT !.compareInput1 = sanitizeRepoInput(@),
                           !.compareStep = 1], <<>>, disk)
         ELSE IF mm.compareStep = 1
         THEN R([mm EXCEPT !.compareInput1 = sanitizeRepoInput(@),
                           !.compareInput2 = sanitizeRepoInput(@),
                           !.err = NilErr,
                           !.state = stateCompareLoading],
                <<CompareCmd(sanitizeRepoInput(mm.compareInput1),
                             sanitizeRepoInput(mm.compareInput2))>>, disk)
         ELSE R(mm, <<>>, disk)
    ELSE R(mm, <<>>, disk)

\* UpdateCompareInput with Ctrl+U clearing both buffers
UpdateCompareInputClearBoth(mm, msg, disk) ==
    IF msg.type # "KeyMsg"
    THEN R(mm, <<>>, disk)
    ELSE CASE msg.keyType = "KeyEnter" ->
                IF mm.compareStep = 0 /\ mm.compareInput1 # <<>>
                THEN R([mm EXCEPT !.compareInput1 = sanitizeRepoInput(@),
                                  !.compareStep = 1], <<>>, disk)
                ELSE IF mm.compareStep = 1 /\ mm.compareInput2 # <<>>
                THEN LET c1 == sanitizeRepoInput(mm.compareInput1)
                         c2 == sanitizeRepoInput(mm.compareInput2)
                     IN R([mm EXCEPT !.compareInput1 = c1,
                                     !.compareInput2 = c2,
                                     !.err = NilErr,
                                     !.state = stateCompareLoading],
                          <<CompareCmd(c1, c2)>>, disk)
                ELSE R(mm, <<>>, disk)
           [] msg.keyType = "KeyBackspace" ->
                IF mm.compareStep = 0 /\ Len(mm.compareInput1) > 0
                THEN R([mm EXCEPT !.compareInput1 = DropLast(@)], <<>>, disk)
                ELSE IF mm.compareStep = 1 /\ Len(mm.compareInput2) > 0
                THEN R([mm EXCEPT !.compareInput2 = DropLast(@)], <<>>, disk)
                ELSE R(mm, <<>>, disk)
           [] msg.keyType = "KeyRunes" ->
                IF mm.compareStep = 0
                THEN R([mm EXCEPT !.compareInput1 = @ \o msg.runes], <<>>, disk)
                ELSE R([mm EXCEPT !.compareInput2 = @ \o msg.runes], <<>>, disk)
           [] msg.keyType = "KeyEsc" ->
                IF mm.compareStep = 1
                THEN R([mm EXCEPT !.compareStep = 0], <<>>, disk)
                ELSE R([mm EXCEPT !.state = stateMenu,
                                  !.menu.Done = FALSE,
                                  !.compareInput1 = <<>>,
                                  !.compareInput2 = <<>>], <<>>, disk)
           [] msg.keyType = "KeyCtrlU" ->
                R([mm EXCEPT !.compareInput1 = <<>>, !.compareInput2 = <<>>],
                  <<>>, disk)
           [] msg.keyType = "KeyCtrlW" ->
                IF mm.compareStep = 0
                THEN R([mm EXCEPT !.compareInput1 = DeleteWord(@)], <<>>, disk)
                ELSE R([mm EXCEPT !.compareInput2 = DeleteWord(@)], <<>>, disk)
           [] OTHER -> R(mm, <<>>, disk)

UpdateCompareInput(mm, msg, disk) ==
    IF msg.type # "KeyMsg"
    THEN R(mm, <<>>, disk)
    ELSE CASE msg.keyType = "KeyEnter" ->
                IF mm.compareStep = 0 /\ mm.compareInput1 # <<>>
                THEN R([mm EXCEPT !.compareInput1 = sanitizeRepoInput(@),
                                  !.compareStep = 1], <<>>, disk)
                ELSE IF mm.compareStep = 1 /\ mm.compareInput2 # <<>>
                THEN LET c1 == sanitizeRepoInput(mm.compareInput1)
                         c2 == sanitizeRepoInput(mm.compareInput2)
                     IN R([mm EXCEPT !.compareInput1 = c1,
                                     !.compareInput2 = c2,
                                     !.err = NilErr,
                                     !.state = stateCompareLoading],
                          <<CompareCmd(c1, c2)>>, disk)
                ELSE R(mm, <<>>, disk)
           [] msg.keyType = "KeyBackspace" ->
                IF mm.compareStep = 0 /\ Len(mm.compareInput1) > 0
                THEN R([mm EXCEPT !.compareInput1 = DropLast(@)], <<>>, disk)
                ELSE IF mm.compareStep = 1 /\ Len(mm.compareInput2) > 0
                THEN R([mm EXCEPT !.compareInput2 = DropLast(@)], <<>>, disk)
                ELSE R(mm, <<>>, disk)
           [] msg.keyType = "KeyRunes" ->
                IF mm.compareStep = 0
                THEN R([mm EXCEPT !.compareInput1 = @ \o msg.runes], <<>>, disk)
                ELSE R([mm EXCEPT !.compareInput2 = @ \o msg.runes], <<>>, disk)
           [] msg.keyType = "KeyEsc" ->
                IF mm.compareStep = 1
                THEN R([mm EXCEPT !.compareStep = 0], <<>>, disk)
                ELSE R([mm EXCEPT !.state = stateMenu,
                                  !.menu.Done = FALSE,
                                  !.compareInput1 = <<>>,
                                  !.compareInput2 = <<>>], <<>>, disk)
           [] msg.keyType = "KeyCtrlU" ->
                IF mm.compareStep = 0
                THEN R([mm EXCEPT !.compareInput1 = <<>>], <<>>, disk)
                ELSE R([mm EXCEPT !.compareInput2 = <<>>], <<>>, disk)
           [] msg.keyType = "KeyCtrlW" ->
                IF mm.compareStep = 0
                THEN R([mm EXCEPT !.compareInput1 = DeleteWord(@)], <<>>, disk)
                ELSE R([mm EXCEPT !.compareInput2 = DeleteWord(@)], <<>>, disk)
           [] OTHER -> R(mm, <<>>, disk)

\* UpdateCompareLoading with an error leaving compareStep as it is
UpdateCompareLoadingKeepStep(mm, msg, disk) ==
    CASE msg.type = "CompareResult" ->
           R([mm EXCEPT !.compareResult =
                            [nil |-> FALSE, Repo1 |-> msg.result, Repo2 |-> msg.result2],
                        !.state = stateCompareResult,
                        !.err = NilErr], <<>>, disk)
      [] msg.type = "error" ->
           R([mm EXCEPT !.err = msg.err,
                        !.state = stateCompareInput], <<>>, disk)
      [] OTHER -> R(mm, <<>>, disk)

UpdateCompareLoading(mm, msg, disk) ==
    CASE msg.type = "CompareResult" ->
           R([mm EXCEPT !.compareResult =
                            [nil |-> FALSE, Repo1 |-> msg.result, Repo2 |-> msg.result2],
                        !.state = stateCompareResult,
                        !.err = NilErr], <<>>, disk)
      [] msg.type = "error" ->
           R([mm EXCEPT !.err = msg.err,
                        !.state = stateCompareInput,
                        !.compareStep = 0], <<>>, disk)
      [] msg.type = "KeyMsg" /\ msg.key = "esc" ->
           R([mm EXCEPT !.state = stateMenu,
                        !.compareInput1 = <<>>,
                        !.compareInput2 = <<>>,
                        !.err = NilErr], <<>>, disk)
      [] OTHER -> R(mm, <<>>, disk)

\* ExportCompareJSON and ExportCompareMarkdown write a file inside Update;
\* ok tells whether the write succeeded.
UpdateCompareResult(mm, msg, disk, ok) ==
    IF msg.type # "KeyMsg"
    THEN R(mm, <<>>, disk)
    ELSE CASE msg.key \in {"q", "esc"} ->
                R([mm EXCEPT !.state = stateMenu,
                             !.compareResult = NilCompare,
                             !.compareInput1 = <<>>,
                             !.compareInput2 = <<>>], <<>>, disk)
           [] msg.key \in {"j", "m"} ->
                IF ~mm.compareResult.nil
                THEN R([mm EXCEPT !.err = IF ok THEN NilErr
                                          ELSE Err("", <<>>, "export failed")],
                       <<>>, disk)
                ELSE R(mm, <<>>, disk)
           [] OTHER -> R(mm, <<>>, disk)

\* UpdateLoading with an error answered by running the pipeline again
UpdateLoadingRetry(mm, msg, disk) ==
    IF msg.type = "error"
    THEN R([mm EXCEPT !.err = msg.err, !.progress = NilTracker],
           <<AnalyzeCmd(mm.input)>>, disk)
    ELSE R(mm, <<>>, disk)

UpdateLoading(mm, msg, disk) ==
    CASE msg.type = "AnalysisResult" ->
           LET h == IF mm.history.nil THEN LoadHistory(disk) ELSE mm.history
               h1 == AddEntry(h, msg.result)
           IN R([mm EXCEPT !.dashboard.data = msg.result,
                           !.state = stateDashboard,
                           !.progress = NilTracker,
                           !.history = h1], <<>>, SaveHistory(h1))
      [] msg.type = "error" ->
           R([mm EXCEPT !.err = msg.err,
                        !.state = stateInput,
                        !.progress = NilTracker], <<>>, disk)
      [] OTHER -> R(mm, <<>>, disk)

\* UpdateHistory with the delete key leaving the cursor where it is
UpdateHistoryKeepCursor(mm, msg, disk) ==
    IF msg.type # "KeyMsg"
    THEN R(mm, <<>>, disk)
    ELSE CASE msg.key \in {"up", "k"} ->
                IF mm.historyCursor > 0
                THEN R([mm EXCEPT !.historyCursor = @ - 1], <<>>, disk)
                ELSE R(mm, <<>>, disk)
           [] msg.key \in {"down", "j"} ->
                IF ~mm.history.nil /\ mm.historyCursor < Len(mm.history.Entries) - 1
                THEN R([mm EXCEPT !.historyCursor = @ + 1], <<>>, disk)
                ELSE R(mm, <<>>, disk)
           [] msg.key = "enter" ->
                IF ~mm.history.nil /\ Len(mm.history.Entries) > 0
                THEN IF mm.historyCursor < Len(mm.history.Entries)
                     THEN LET repoName == mm.history.Entries[mm.historyCursor + 1]
                          IN R([mm EXCEPT !.input = repoName,
                                          !.state = stateLoading],
                               <<AnalyzeCmd(repoName)>>, disk)
                     ELSE R([mm EXCEPT !.state = statePanic], <<>>, disk)
                ELSE R(mm, <<>>, disk)
           [] msg.key = "d" ->
                IF ~mm.history.nil /\ Len(mm.history.Entries) > 0
                THEN IF mm.historyCursor < Len(mm.history.Entries)
                     THEN LET h1 == DeleteEntry(mm.history, mm.historyCursor)
                          IN R([mm EXCEPT !.history = h1], <<>>, SaveHistory(h1))
                     ELSE R([mm EXCEPT !.state = statePanic], <<>>, disk)
                ELSE R(mm, <<>>, disk)
           [] msg.key = "c" ->
                IF ~mm.history.nil
                THEN LET h1 == ClearHistory(mm.history)
                     IN R([mm EXCEPT !.history = h1, !.historyCursor = 0],
                          <<>>, SaveHistory(h1))
                ELSE R(mm, <<>>, disk)
           [] msg.key \in {"q", "esc"} ->
                R([mm EXCEPT !.state = stateMenu], <<>>, disk)
           [] OTHER -> R(mm, <<>>, disk)

UpdateHistory(mm, msg, disk) ==
    IF msg.type # "KeyMsg"
    THEN R(mm, <<>>, disk)
    ELSE CASE msg.key \in {"up", "k"} ->
                IF mm.historyCursor > 0
                THEN R([mm EXCEPT !.historyCursor = @ - 1], <<>>, disk)
                ELSE R(mm, <<>>, disk)
           [] msg.key \in {"down", "j"} ->
                IF ~mm.history.nil /\ mm.historyCursor < Len(mm.history.Entries) - 1
                THEN R([mm EXCEPT !.historyCursor = @ + 1], <<>>, disk)
                ELSE R(mm, <<>>, disk)
           [] msg.key = "enter" ->
                IF ~mm.history.nil /\ Len(mm.history.Entries) > 0
                THEN IF mm.historyCursor < Len(mm.history.Entries)
                     THEN LET repoName == mm.history.Entries[mm.historyCursor + 1]
                          IN R([mm EXCEPT !.input = repoName,
                                          !.state = stateLoading],
                               <<AnalyzeCmd(repoName)>>, disk)
                     ELSE R([mm EXCEPT !.state = statePanic], <<>>, disk)
                ELSE R(mm, <<>>, disk)
           [] msg.key = "d" ->
                IF ~mm.history.nil /\ Len(mm.history.Entries) > 0
                THEN IF mm.historyCursor < Len(mm.history.Entries)
                     THEN LET h1 == DeleteEntry(mm.history, mm.historyCursor)
                          IN R([mm EXCEPT !.history = h1,
                                          !.historyCursor =
                                              IF @ >= Len(h1.Entries) /\ @ > 0
                                              THEN @ - 1 ELSE @],
                               <<>>, SaveHistory(h1))
                     ELSE R([mm EXCEPT !.state = statePanic], <<>>, disk)
                ELSE R(mm, <<>>, disk)
           [] msg.key = "c" ->
                IF ~mm.history.nil
                THEN LET h1 == ClearHistory(mm.history)
                     IN R([mm EXCEPT !.history = h1, !.historyCursor = 0],
                          <<>>, SaveHistory(h1))
                ELSE R(mm, <<>>, disk)
           [] msg.key \in {"q", "esc"} ->
                R([mm EXCEPT !.state = stateMenu], <<>>, disk)
           [] OTHER -> R(mm, <<>>, disk)

\* stateHelp and stateSettings
UpdateHelp(mm, msg, disk) ==
    IF msg.type = "KeyMsg" /\ msg.key \in {"q", "esc"}
    THEN R([mm EXCEPT !.state = stateMenu], <<>>, disk)
    ELSE R(mm, <<>>, disk)

\* UpdateDashboard leaving the BackToMenu flag set
UpdateDashboardKeepFlag(mm, msg, disk) ==
    LET newDash == DashboardUpdate(mm.dashboard, msg)
        m1      == [mm EXCEPT !.dashboard = newDash.d]
    IN IF newDash.d.BackToMenu
       THEN R([m1 EXCEPT !.state = stateMenu,
                         !.input = <<>>], newDash.cmds, disk)
       ELSE R(m1, newDash.cmds, disk)

UpdateDashboard(mm, msg, disk) ==
    LET newDash == DashboardUpdate(mm.dashboard, msg)
        m1      == [mm EXCEPT !.dashboard = newDash.d]
    IN IF newDash.d.BackToMenu
       THEN R([m1 EXCEPT !.state = stateMenu,
                         !.dashboard.BackToMenu = FALSE,
                         !.input = <<>>], newDash.cmds, disk)
       ELSE R(m1, newDash.cmds, disk)

UpdateTree(mm, msg, disk) ==
    LET newTree == TreeUpdate(mm.tree, msg)
        m1      == [mm EXCEPT !.tree = newTree]
    IN IF newTree.Done
       THEN R([m1 EXCEPT !.state = stateDashboard, !.tree.Done = FALSE], <<>>, disk)
       ELSE R(m1, <<>>, disk)

\* the second switch of Update, on the state the first switch left
UpdateState(mm, msg, disk, choice, ok) ==
    CASE mm.state = stateMenu           -> UpdateMenu(mm, msg, disk, choice)
      [] mm.state = stateInput          -> UpdateInput(mm, msg, disk)
      [] mm.state = stateCompareInput   -> UpdateCompareInput(mm, msg, disk)
      [] mm.state = stateCompareLoading -> UpdateCompareLoading(mm, msg, disk)
      [] mm.state = stateCompareResult  -> UpdateCompareResult(mm, msg, disk, ok)
      [] mm.state = stateLoading        -> UpdateLoading(mm, msg, disk)
      [] mm.state = stateHistory        -> UpdateHistory(mm, msg, disk)
      [] mm.state = stateHelp           -> UpdateHelp(mm, msg, disk)
      [] mm.state = stateSettings       -> UpdateHelp(mm, msg, disk)
      [] mm.state = stateDashboard      -> UpdateDashboard(mm, msg, disk)
      [] mm.state = stateTree           -> UpdateTree(mm, msg, disk)
      [] OTHER                          -> R(mm, <<>>, disk)

\* MainModel.Update(msg): the model and the batch of Commands it returns.
\* choice is what the menu selects on this key, ok whether a file written
\* inside the call is written.
Update(mm, msg, disk, choice, ok) ==
    LET g == UpdateGlobal(mm, msg)
    IN IF g.quit
       THEN [m |-> g.m, cmds |-> g.cmds, disk |-> disk, quit |-> TRUE]
       ELSE LET s == UpdateState(g.m, msg, disk, choice, ok)
            IN [s EXCEPT !.cmds = g.cmds \o @]

\* ------------------------------------------------------------------------
\* The analysis cache (package cache): an index in memory, saved to
\* cache_index.json by every operation that changes it, and one file per
\* cached repository in the directory repos
\* ------------------------------------------------------------------------

\* the default time-to-live (24 hours), in ticks of the model's clock
DayTicks == 2

DefaultConfig == [Enabled |-> TRUE, TTL |-> DayTicks, MaxSize |-> 100, AutoCache |-> TRUE]

\* a map with no keys, a map with key k set to v, a map without the keys ks
EmptyMap == [k \in {} |-> {}]

MapPut(f, k, v) == [x \in DOMAIN f \cup {k} |-> IF x = k THEN v ELSE f[x]]

MapRemove(f, ks) == [x \in DOMAIN f \ ks |-> f[x]]

\* strings.ReplaceAll(s, old, new) for one-character old and new
ReplaceAll(s, old, new) == [i \in DOMAIN s |-> IF s[i] = old THEN new ELSE s[i]]

repoToFilename(repoName) == ReplaceAll(repoName, "/", "_") \o <<".", "j", "s", "o", "n">>

\* The Cache NewCache() returns in an empty cache directory.  The field
\* repos is the directory of entry files, by file name; the field now is
\* the wall clock that time.Now() reads.
NewCache ==
    [config |-> DefaultConfig,
     index  |-> [Entries |-> EmptyMap, LastUpdated |-> 0],
     repos  |-> EmptyMap,
     now    |-> 0]

saveIndex(c) == [c EXCEPT !.index.LastUpdated = c.now]

NilEntry == [RepoName |-> <<>>, CachedAt |-> 0, ExpiresAt |-> 0, Analysis |-> "nil"]

NotFound == [found |-> FALSE, entry |-> NilEntry]

\* time.Now().After(entry.ExpiresAt)
Expired(c, entry) == c.now > entry.ExpiresAt

GetIgnoreEnabled(c, repoName) ==
    IF repoName \notin DOMAIN c.index.Entries THEN NotFound
    ELSE IF Expired(c, c.index.Entries[repoName]) THEN NotFound
    ELSE IF repoToFilename(repoName) \notin DOMAIN c.repos THEN NotFound
    ELSE [found |-> TRUE, entry |-> c.repos[repoToFilename(repoName)]]

\* Get(repoName): the entry and whether it was found
Get(c, repoName) ==
    IF ~c.config.Enabled THEN NotFound
    ELSE IF repoName \notin DOMAIN c.index.Entries THEN NotFound
    ELSE IF Expired(c, c.index.Entries[repoName]) THEN NotFound
    ELSE IF repoToFilename(repoName) \notin DOMAIN c.repos THEN NotFound
    ELSE [found |-> TRUE, entry |-> c.repos[repoToFilename(repoName)]]

\* Set(repoName, analysis): the cache afterwards and whether an error came
\* back; written tells whether os.WriteFile stores the entry file
Set(c, repoName, analysis, written) ==
    IF ~c.config.Enabled \/ ~c.config.AutoCache THEN [cache |-> c, err |-> FALSE]
    ELSE IF ~written THEN [cache |-> c, err |-> TRUE]
    ELSE LET entry == [RepoName |-> repoName, CachedAt |-> c.now,
                       ExpiresAt |-> c.now + c.config.TTL, Analysis |-> analysis]
             indexEntry == [RepoName |-> repoName, CachedAt |-> c.now,
                            ExpiresAt |-> c.now + c.config.TTL]
         IN [cache |-> saveIndex([c EXCEPT
                          !.repos = MapPut(@, repoToFilename(repoName), entry),
                          !.index.Entries = MapPut(@, repoName, indexEntry)]),
             err |-> FALSE]

\* Delete(repoName); removed tells whether os.Remove removes the file
Delete(c, repoName, removed) ==
    saveIndex([c EXCEPT
        !.repos = IF removed THEN MapRemove(@, {repoToFilename(repoName)}) ELSE @,
        !.index.Entries = MapRemove(@, {repoName})])

\* Clear(); removed is the set of files that os.Remove removes
ClearFilesOnly(c, removed) ==
    saveIndex([c EXCEPT !.repos = MapRemove(@, removed)])

Clear(c, removed) ==
    saveIndex([c EXCEPT !.repos = MapRemove(@, removed),
                        !.index.Entries = EmptyMap])

ExpiredRepos(c) == {r \in DOMAIN c.index.Entries : Expired(c, c.index.Entries[r])}

GetStatsCountFiles(c) ==
    [TotalRepos   |-> Cardinality(DOMAIN c.repos),
     ExpiredRepos |-> Cardinality(ExpiredRepos(c)),
     ValidRepos   |-> Cardinality(DOMAIN c.index.Entries \ ExpiredRepos(c))]

GetStats(c) ==
    [TotalRepos   |-> Cardinality(DOMAIN c.index.Entries),
     ExpiredRepos |-> Cardinality(ExpiredRepos(c)),
     ValidRepos   |-> Cardinality(DOMAIN c.index.Entries \ ExpiredRepos(c))]

HasCache(c, repoName) == repoName \in DOMAIN c.index.Entries

GetConfig(c) == c.config

SetEnabled(c, enabled) == [c EXCEPT !.config.Enabled = enabled]

SetTTL(c, ttl) == [c EXCEPT !.config.TTL = ttl]

SetAutoCache(c, enabled) == [c EXCEPT !.config.AutoCache = enabled]

\* CleanExpired(): Delete of every expired entry of the index
CleanExpired(c) ==
    IF ExpiredRepos(c) = {} THEN c
    ELSE saveIndex([c EXCEPT
             !.repos = MapRemove(@, {repoToFilename(r) : r \in ExpiredRepos(c)}),
             !.index.Entries = MapRemove(@, ExpiredRepos(c))])

\* ------------------------------------------------------------------------
\* The favorites: a list of bookmarked repositories with their use counts
\* ------------------------------------------------------------------------

\* The Favorites that LoadFavorites() returns when there is no file.  The
\* field now is the wall clock that time.Now() reads.
NewFavorites == [Items |-> <<>>, now |-> 0]

Favorite(repoName, now) ==
    [RepoName |-> repoName, AddedAt |-> now, LastUsed |-> now, UseCount |-> 1,
     Notes |-> <<>>]

\* the position of the first item named repoName, 0 when there is none
FirstNamed(items, repoName) ==
    IF \E i \in DOMAIN items : items[i].RepoName = repoName
    THEN CHOOSE i \in DOMAIN items :
             /\ items[i].RepoName = repoName
             /\ \A j \in 1..(i - 1) : items[j].RepoName # repoName
    ELSE 0

\* UpdateUsage(repoName)
FavoritesUpdateUsage(f, repoName) ==
    IF FirstNamed(f.Items, repoName) = 0 THEN f
    ELSE [f EXCEPT !.Items[FirstNamed(f.Items, repoName)] =
                       [@ EXCEPT !.UseCount = @ + 1, !.LastUsed = f.now]]

\* Add(repoName)
FavoritesAddAlways(f, repoName) ==
    [f EXCEPT !.Items = Append(@, Favorite(repoName, f.now))]

FavoritesAdd(f, repoName) ==
    IF FirstNamed(f.Items, repoName) # 0
    THEN [f EXCEPT !.Items[FirstNamed(f.Items, repoName)] =
                       [@ EXCEPT !.UseCount = @ + 1, !.LastUsed = f.now]]
    ELSE [f EXCEPT !.Items = Append(@, Favorite(repoName, f.now))]

\* Remove(repoName): append(f.Items[:i], f.Items[i+1:]...)
FavoritesRemoveSwap(f, repoName) ==
    IF FirstNamed(f.Items, repoName) = 0 THEN f
    ELSE [f EXCEPT !.Items =
              SubSeq([@ EXCEPT ![FirstNamed(f.Items, repoName)] = f.Items[Len(f.Items)]],
                     1, Len(@) - 1)]

FavoritesRemove(f, repoName) ==
    IF FirstNamed(f.Items, repoName) = 0 THEN f
    ELSE [f EXCEPT !.Items = SubSeq(@, 1, FirstNamed(f.Items, repoName) - 1)
                                 \o SubSeq(@, FirstNamed(f.Items, repoName) + 1, Len(@))]

IsFavorite(f, repoName) == \E i \in DOMAIN f.Items : f.Items[i].RepoName = repoName

FavoritesClear(f) == [f EXCEPT !.Items = <<>>]

\* the orders in which sort.Slice, which is not stable, can leave a copy
\* of the items under the comparison UseCount > UseCount
SortedCopies(items) ==
    {[i \in DOMAIN items |-> items[p[i]]] :
        p \in {q \in [DOMAIN items -> DOMAIN items] :
                  /\ \A i, j \in DOMAIN items : i # j => q[i] # q[j]
                  /\ \A i, j \in DOMAIN items :
                         i < j => items[q[i]].UseCount >= items[q[j]].UseCount}}

\* GetTopFavorites(n): the lists it can return, each with the Favorites it
\* leaves behind
GetTopFavoritesInPlace(f, n) ==
    IF n <= 0 THEN {[f |-> f, top |-> <<>>]}
    ELSE {[f |-> [f EXCEPT !.Items = sorted],
           top |-> IF n > Len(sorted) THEN sorted ELSE SubSeq(sorted, 1, n)] :
              sorted \in SortedCopies(f.Items)}

GetTopFavorites(f, n) ==
    IF n <= 0 THEN {[f |-> f, top |-> <<>>]}
    ELSE {[f |-> f,
           top |-> IF n > Len(sorted) THEN sorted ELSE SubSeq(sorted, 1, n)] :
              sorted \in SortedCopies(f.Items)}

\* ------------------------------------------------------------------------
\* The runtime: the event loop and the Commands in flight
\* ------------------------------------------------------------------------

VARIABLES
    m,            \* the MainModel the runtime holds
    historyFile,  \* the entries of the history file on disk
    inflight,     \* the bag of Commands dispatched and not yet completed
    running,      \* FALSE once Update has returned tea.Quit
    run,          \* one function run on its own: its inputs and what it returned
    cache,        \* the analysis cache, its directory on disk and the clock
    favorites     \* the Favorites and the clock

vars == <<m, historyFile, inflight, running, run, cache, favorites>>

\* No function is run on its own.  For a closure: its arguments, the
\* collaborator scripts, and what it returned.  For the sanitizer: the
\* text it was first given, the text after the applications so far, and
\* their number.  For the progress tracker: the tracker, and the number
\* of NextStage() calls so far.
NoRun ==
    [kind |-> "none", repo1 |-> <<>>, repo2 |-> <<>>, fails1 |-> {}, fails2 |-> {},
     done |-> FALSE, out |-> Run(BaseMsg, <<>>, 0),
     input |-> <<>>, text |-> <<>>, applied |-> 0,
     tracker |-> NewProgressTracker(0, 0)]

LoadingStates == {stateLoading, stateCompareLoading}

TypingStates == {stateInput, stateCompareInput}

\* the keys without runes: String() and Type
EnterKey     == KeyMsg("enter", "KeyEnter", <<>>)
EscKey       == KeyMsg("esc", "KeyEsc", <<>>)
BackspaceKey == KeyMsg("backspace", "KeyBackspace", <<>>)
CtrlUKey     == KeyMsg("ctrl+u", "KeyCtrlU", <<>>)
CtrlWKey     == KeyMsg("ctrl+w", "KeyCtrlW", <<>>)
CtrlCKey     == KeyMsg("ctrl+c", "KeyCtrlC", <<>>)
UpKey        == KeyMsg("up", "KeyUp", <<>>)
DownKey      == KeyMsg("down", "KeyDown", <<>>)

\* a letter key arrives as KeyRunes with the one rune
LetterKey(c) == KeyMsg(c, "KeyRunes", <<c>>)

\* texts arriving as one KeyRunes message: a well-formed identifier, a blank
PasteRepo  == KeyMsg("a/a", "KeyRunes", <<"a", "/", "a">>)
PasteBlank == KeyMsg(" ", "KeyRunes", <<" ">>)

Pastes == {PasteRepo, PasteBlank}

\* the keys pressed while a buffer is edited
TypingKeys ==
    {EnterKey, EscKey, BackspaceKey, CtrlUKey, CtrlWKey, CtrlCKey} \cup Pastes

\* the keys pressed in the other states
CommandKeys ==
    {EnterKey, EscKey, CtrlCKey, UpKey, DownKey}
    \cup {LetterKey(c) : c \in {"q", "f", "r", "d", "c"}}

\* the buffer a KeyRunes message is appended to
EditedBuffer(mm) ==
    IF mm.state = stateInput THEN mm.input
    ELSE IF mm.compareStep = 0 THEN mm.compareInput1
    ELSE mm.compareInput2

\* The user types a well-formed identifier into an empty buffer and
\* submits it or leaves.
KeysOffered(mm) ==
    IF mm.state \in TypingStates
    THEN {k \in {EnterKey, EscKey, CtrlCKey, PasteRepo} :
              k = PasteRepo => EditedBuffer(mm) = <<>>}
    ELSE CommandKeys

\* The user types a text into an empty buffer, then edits, clears or
\* submits it.
EditingKeysOffered(mm) ==
    IF mm.state \in TypingStates
    THEN {k \in TypingKeys : k \in Pastes => EditedBuffer(mm) = <<>>}
    ELSE CommandKeys

\* the collaborator scripts: no fetch fails, the repository fetch fails,
\* or a later fetch does
Scripts == {{}, {"repo"}, {"commits"}}

PipelineKinds == {"analyzeRepo", "compareRepos"}

\* The pipeline Commands left in flight when the session leaves a loading
\* state were dispatched for a state that is gone.
MarkStale(bag) ==
    LET mark(c) == IF c.kind \in PipelineKinds THEN [c EXCEPT !.stale = TRUE] ELSE c
        marked  == {mark(c) : c \in BagToSet(bag)}
    IN [d \in marked |->
           LET from == {c \in BagToSet(bag) : mark(c) = d}
               RECURSIVE sum(_)
               sum(S) == IF S = {} THEN 0
                         ELSE LET c == CHOOSE c \in S : TRUE
                              IN bag[c] + sum(S \ {c})
           IN sum(from)]

\* the Commands of a batch that the runtime starts
Started(batch) ==
    LET RECURSIVE add(_)
        add(seq) == IF seq = <<>> THEN EmptyBag
                    ELSE IF Head(seq).kind = "quit" THEN add(Tail(seq))
                    ELSE SetToBag({Head(seq)}) (+) add(Tail(seq))
    IN add(batch)

\* the message with which a Command completes under a collaborator script
Completion(c, fails1, fails2, ok) ==
    CASE c.kind = "analyzeRepo" ->
           [analyzeRepo(c.repo1, fails1).msg EXCEPT !.stale = c.stale]
      [] c.kind = "compareRepos" ->
           [compareRepos(c.repo1, c.repo2, fails1, fails2).msg EXCEPT !.stale = c.stale]
      [] c.kind = "signal" -> StringMsg(c.text)
      [] c.kind = "export" ->
           IF ok THEN ExportMsg(NilErr, c.text)
           ELSE ExportMsg(Err("", <<>>, "export failed"), "")

\* One turn of the event loop: Update is called with message mg, and the
\* Commands it returns join rest, the Commands still in flight, of which
\* there are never more than cap.  The History grows to MaxHistory
\* entries and no further; a longer one found on disk stays or shrinks.
Step(mg, rest, choice, ok, cap) ==
    /\ running
    /\ m.state # statePanic
    /\ \E r \in {Update(m, mg, historyFile, choice, ok)} :
         \E next \in {(IF m.state \in LoadingStates /\ r.m.state # m.state
                       THEN MarkStale(rest) ELSE rest) (+) Started(r.cmds)} :
            /\ \/ Len(r.m.history.Entries) <= MaxHistory
               \/ Len(r.m.history.Entries) <= Len(historyFile)
            /\ BagCardinality(next) <= cap
            /\ m' = r.m
            /\ historyFile' = r.disk
            /\ inflight' = next
            /\ running' = ~r.quit
            /\ run' = run
            /\ cache' = cache
            /\ favorites' = favorites

\* a Command in flight completes with message mg
Deliver(c, mg, cap) == Step(mg, inflight (-) SetToBag({c}), NoChoice, TRUE, cap)

Init ==
    /\ m = NewMainModel
    /\ historyFile = <<>>
    /\ inflight = EmptyBag
    /\ running = TRUE
    /\ cache = NewCache
    /\ favorites = NewFavorites
    /\ run = NoRun

\* a key is pressed
KeyPress ==
    \E k \in KeysOffered(m) :
        /\ ~(m.state = stateMenu /\ k = EnterKey)
        /\ Step(k, inflight, NoChoice, TRUE, MaxInFlight)

\* Enter on an entry of the menu
MenuSelect ==
    \E choice \in MenuChoices :
        /\ m.state = stateMenu
        /\ Step(EnterKey, inflight, choice, TRUE, MaxInFlight)

\* an analyzeRepo Command completes
DeliverAnalysis ==
    \E c \in BagToSet(inflight), fails \in Scripts :
        /\ c.kind = "analyzeRepo"
        /\ Deliver(c, Completion(c, fails, {}, TRUE), MaxInFlight)

\* a compareRepos Command completes
DeliverCompare ==
    \E c \in BagToSet(inflight), fails1 \in Scripts, fails2 \in Scripts :
        /\ c.kind = "compareRepos"
        /\ Deliver(c, Completion(c, fails1, fails2, TRUE), MaxInFlight)

\* a Command that returns a plain string completes
DeliverSignal ==
    \E c \in BagToSet(inflight) :
        /\ c.kind = "signal"
        /\ Deliver(c, Completion(c, {}, {}, TRUE), MaxInFlight)

Next ==
    \/ KeyPress
    \/ MenuSelect
    \/ DeliverAnalysis
    \/ DeliverCompare
    \/ DeliverSignal

Spec == Init /\ [][Next]_vars

\* The runtime delivers the message of every Command: a Command in flight
\* completes, with a result or with an error, and its message reaches
\* Update.
SpecFair ==
    /\ Init /\ [][Next]_vars
    /\ WF_vars(DeliverAnalysis)
    /\ WF_vars(DeliverCompare)
    /\ WF_vars(DeliverSignal)

\* ------------------------------------------------------------------------
\* The session of a user who edits the buffers, with one Command in
\* flight less
\* ------------------------------------------------------------------------

KeyPressEditing ==
    \E k \in EditingKeysOffered(m) :
        /\ ~(m.state = stateMenu /\ k = EnterKey)
        /\ Step(k, inflight, NoChoice, TRUE, MaxInFlight - 1)

MenuSelectEditing ==
    \E choice \in MenuChoices :
        /\ m.state = stateMenu
        /\ Step(EnterKey, inflight, choice, TRUE, MaxInFlight - 1)

DeliverAnalysisEditing ==
    \E c \in BagToSet(inflight), fails \in Scripts :
        /\ c.kind = "analyzeRepo"
        /\ Deliver(c, Completion(c, fails, {}, TRUE), MaxInFlight - 1)

DeliverCompareEditing ==
    \E c \in BagToSet(inflight), fails1 \in Scripts, fails2 \in Scripts :
        /\ c.kind = "compareRepos"
        /\ Deliver(c, Completion(c, fails1, fails2, TRUE), MaxInFlight - 1)

DeliverSignalEditing ==
    \E c \in BagToSet(inflight) :
        /\ c.kind = "signal"
        /\ Deliver(c, Completion(c, {}, {}, TRUE), MaxInFlight - 1)

NextEditing ==
    \/ KeyPressEditing
    \/ MenuSelectEditing
    \/ DeliverAnalysisEditing
    \/ DeliverCompareEditing
    \/ DeliverSignalEditing

SpecEditing == Init /\ [][NextEditing]_vars

\* ------------------------------------------------------------------------
\* The closures of analyzeRepo and compareRepos, each run on its own
\* against a scripted collaborator
\* ------------------------------------------------------------------------

\* the repository names a closure is run with: well-formed, a name without
\* a slash, with an empty part, empty, and with two slashes
PipelineNames ==
    {<<"a", "/", "a">>, <<"a", "/", "b">>, <<"a">>, <<"a", "/">>, <<>>,
     <<"a", "/", "a", "/", "a">>}

\* the names compareRepos is run with
CompareNames == {<<"a", "/", "a">>, <<"a", "/", "b">>, <<"a">>}

\* the collaborator scripts: any set of fetches fails
AllScripts == SUBSET {FetchOrder[i] : i \in DOMAIN FetchOrder}

PipelineInputs ==
    {[NoRun EXCEPT !.kind = "analyzeRepo", !.repo1 = n, !.fails1 = f] :
         n \in PipelineNames, f \in AllScripts}
    \cup {[NoRun EXCEPT !.kind = "compareRepos", !.repo1 = n1, !.repo2 = n2,
                        !.fails1 = f1, !.fails2 = f2] :
              n1 \in CompareNames, n2 \in CompareNames,
              f1 \in AllScripts, f2 \in AllScripts}

InitPipeline ==
    /\ m = NewMainModel
    /\ historyFile = <<>>
    /\ inflight = EmptyBag
    /\ running = TRUE
    /\ cache = NewCache
    /\ favorites = NewFavorites
    /\ run \in PipelineInputs

\* the runtime runs the closure that analyzeRepo returned
RunAnalysis ==
    /\ run.kind = "analyzeRepo"
    /\ ~run.done
    /\ run' = [run EXCEPT !.done = TRUE, !.out = analyzeRepo(run.repo1, run.fails1)]
    /\ UNCHANGED <<m, historyFile, inflight, running, cache, favorites>>

\* the runtime runs the closure that compareRepos returned
RunCompare ==
    /\ run.kind = "compareRepos"
    /\ ~run.done
    /\ run' = [run EXCEPT !.done = TRUE,
                          !.out = compareRepos(run.repo1, run.repo2,
                                               run.fails1, run.fails2)]
    /\ UNCHANGED <<m, historyFile, inflight, running, cache, favorites>>

NextPipeline ==
    \/ RunAnalysis
    \/ RunCompare

SpecPipeline == InitPipeline /\ [][NextPipeline]_vars

\* ------------------------------------------------------------------------
\* sanitizeRepoInput applied to a text, and to its own result
\* ------------------------------------------------------------------------

\* the characters of the texts: a letter, the path separator, a blank and
\* the null byte
SanitizeAlphabet == {"a", "/", " ", NUL}

\* the texts of at most n characters
TextsUpTo(n) ==
    UNION {[1..k -> SanitizeAlphabet] : k \in 0..n}

\* a repository URL with a trailing slash
ExampleURL ==
    <<"h", "t", "t", "p", "s", ":", "/", "/">> \o GithubMarker
    \o <<"a", "c", "m", "e", "/", "w", "i", "d", "g", "e", "t", "/">>

\* what a text starts with: nothing, the host prefix, the host prefix
\* after a scheme letter, the host prefix twice
HostPrefixes ==
    {<<>>, GithubMarker, <<"h">> \o GithubMarker,
     GithubMarker \o <<"a", "/">> \o GithubMarker}

\* the texts the sanitizer is given: every short text, alone and after
\* a host prefix, and the example URL
SanitizeInputs ==
    {pre \o t : pre \in HostPrefixes, t \in TextsUpTo(MaxTextLen)}
    \cup {ExampleURL}

InitSanitize ==
    /\ m = NewMainModel
    /\ historyFile = <<>>
    /\ inflight = EmptyBag
    /\ running = TRUE
    /\ cache = NewCache
    /\ favorites = NewFavorites
    /\ run \in {[NoRun EXCEPT !.kind = "sanitize", !.input = x, !.text = x] :
                    x \in SanitizeInputs}

\* sanitizeRepoInput is applied to the text, at most twice
Sanitize ==
    /\ run.kind = "sanitize"
    /\ run.applied < 2
    /\ run' = [run EXCEPT !.text = sanitizeRepoInput(@), !.applied = @ + 1]
    /\ UNCHANGED <<m, historyFile, inflight, running, cache, favorites>>

NextSanitize == Sanitize

SpecSanitize == InitSanitize /\ [][NextSanitize]_vars

\* ------------------------------------------------------------------------
\* A progress tracker on its own: NextStage() called more often than
\* there are stages
\* ------------------------------------------------------------------------

\* most calls of NextStage() on one tracker
MaxCalls == MaxStages + 3

InitTracker ==
    /\ m = NewMainModel
    /\ historyFile = <<>>
    /\ inflight = EmptyBag
    /\ running = TRUE
    /\ cache = NewCache
    /\ favorites = NewFavorites
    /\ \E count \in 1..MaxStages : \E limit \in ClampPositions(count) :
           run = [NoRun EXCEPT !.kind = "tracker",
                               !.tracker = NewProgressTracker(count, limit)]

NextStageCall ==
    /\ run.kind = "tracker"
    /\ run.applied < MaxCalls
    /\ run' = [run EXCEPT !.tracker = NextStage(@), !.applied = @ + 1]
    /\ UNCHANGED <<m, historyFile, inflight, running, cache, favorites>>

NextTracker == NextStageCall

SpecTracker == InitTracker /\ [][NextTracker]_vars

\* ------------------------------------------------------------------------
\* A cache on its own: the operations of one Cache in any order, while
\* the clock advances
\* ------------------------------------------------------------------------

\* the clock stops here
MaxClock == 2

\* repository names: the first two have one file name between them
CacheRepos ==
    {<<"a", "/", "b", "_", "c">>, <<"a", "_", "b", "/", "c">>, <<"a", "/", "b">>}

Analyses == {"x", "y"}

SetCall ==
    /\ \E r \in CacheRepos : \E x \in Analyses : \E written \in BOOLEAN :
           cache' = Set(cache, r, x, written).cache
    /\ UNCHANGED <<m, historyFile, inflight, running, run, favorites>>

DeleteCall ==
    /\ \E r \in CacheRepos : \E removed \in BOOLEAN :
           cache' = Delete(cache, r, removed)
    /\ UNCHANGED <<m, historyFile, inflight, running, run, favorites>>

ClearCall ==
    /\ \E removed \in {DOMAIN cache.repos, {}} : cache' = Clear(cache, removed)
    /\ UNCHANGED <<m, historyFile, inflight, running, run, favorites>>

CleanExpiredCall ==
    /\ cache' = CleanExpired(cache)
    /\ UNCHANGED <<m, historyFile, inflight, running, run, favorites>>

SetEnabledCall ==
    /\ \E enabled \in BOOLEAN : cache' = SetEnabled(cache, enabled)
    /\ UNCHANGED <<m, historyFile, inflight, running, run, favorites>>

SetTTLCall ==
    /\ \E ttl \in 1..DayTicks : cache' = SetTTL(cache, ttl)
    /\ UNCHANGED <<m, historyFile, inflight, running, run, favorites>>

SetAutoCacheCall ==
    /\ \E enabled \in BOOLEAN : cache' = SetAutoCache(cache, enabled)
    /\ UNCHANGED <<m, historyFile, inflight, running, run, favorites>>

\* time passes
Tick ==
    /\ cache.now < MaxClock
    /\ cache' = [cache EXCEPT !.now = @ + 1]
    /\ UNCHANGED <<m, historyFile, inflight, running, run, favorites>>

NextCache ==
    \/ SetCall
    \/ DeleteCall
    \/ ClearCall
    \/ CleanExpiredCall
    \/ SetEnabledCall
    \/ SetTTLCall
    \/ SetAutoCacheCall
    \/ Tick

SpecCache == Init /\ [][NextCache]_vars

\* ------------------------------------------------------------------------
\* The favorites on their own: the operations of one Favorites in any
\* order, from the empty list, while the clock advances
\* ------------------------------------------------------------------------

\* no item is used more often than this
MaxUse == 3

FavoriteRepos == CacheRepos

\* the arguments of GetTopFavorites
TopCounts == (0 - 1)..(Cardinality(FavoriteRepos) + 1)

UseCountOf(f, r) ==
    IF IsFavorite(f, r) THEN f.Items[FirstNamed(f.Items, r)].UseCount ELSE 0

AddCall ==
    /\ \E r \in FavoriteRepos :
           /\ UseCountOf(favorites, r) < MaxUse
           /\ favorites' = FavoritesAdd(favorites, r)
    /\ UNCHANGED <<m, historyFile, inflight, running, run, cache>>

RemoveCall ==
    /\ \E r \in FavoriteRepos : favorites' = FavoritesRemove(favorites, r)
    /\ UNCHANGED <<m, historyFile, inflight, running, run, cache>>

UpdateUsageCall ==
    /\ \E r \in FavoriteRepos :
           /\ UseCountOf(favorites, r) < MaxUse
           /\ favorites' = FavoritesUpdateUsage(favorites, r)
    /\ UNCHANGED <<m, historyFile, inflight, running, run, cache>>

ClearFavoritesCall ==
    /\ favorites' = FavoritesClear(favorites)
    /\ UNCHANGED <<m, historyFile, inflight, running, run, cache>>

GetTopFavoritesCall ==
    /\ \E n \in TopCounts : \E o \in GetTopFavorites(favorites, n) :
           favorites' = o.f
    /\ UNCHANGED <<m, historyFile, inflight, running, run, cache>>

TickFavorites ==
    /\ favorites.now < MaxClock
    /\ favorites' = [favorites EXCEPT !.now = @ + 1]
    /\ UNCHANGED <<m, historyFile, inflight, running, run, cache>>

NextFavorites ==
    \/ AddCall
    \/ RemoveCall
    \/ UpdateUsageCall
    \/ ClearFavoritesCall
    \/ GetTopFavoritesCall
    \/ TickFavorites

SpecFavorites == Init /\ [][NextFavorites]_vars

\* ------------------------------------------------------------------------
\* The session of a user who finds a history file of earlier sessions
\* ------------------------------------------------------------------------

\* most entries of the history file found at the start
MaxEntries == 3

HistoryNames == {<<"a", "/", "a">>, <<"b", "/", "b">>}

RECURSIVE ListsUpTo(_, _)
ListsUpTo(S, n) ==
    IF n = 0 THEN {<<>>}
    ELSE ListsUpTo(S, n - 1)
         \cup {Append(l, x) : l \in {k \in ListsUpTo(S, n - 1) : Len(k) = n - 1},
                              x \in S}

InitHistory ==
    /\ m = NewMainModel
    /\ historyFile \in ListsUpTo(HistoryNames, MaxEntries)
    /\ inflight = EmptyBag
    /\ running = TRUE
    /\ cache = NewCache
    /\ favorites = NewFavorites
    /\ run = NoRun

\* a key is pressed; this user waits for a Command to complete before a
\* key that starts the next
KeyPressHistory ==
    \E k \in KeysOffered(m) :
        /\ ~(m.state = stateMenu /\ k = EnterKey)
        /\ Step(k, inflight, NoChoice, TRUE, 1)

NextHistory ==
    \/ KeyPressHistory
    \/ MenuSelectEditing
    \/ DeliverAnalysisEditing
    \/ DeliverCompareEditing
    \/ DeliverSignalEditing

SpecHistory == InitHistory /\ [][NextHistory]_vars

\* ------------------------------------------------------------------------
\* Properties of the session
\* ------------------------------------------------------------------------

\* the messages with which the Command c in flight can complete
Completions(c) ==
    {Completion(c, fails1, fails2, TRUE) : fails1 \in Scripts, fails2 \in Scripts}

\* what is stored of the results: the dashboard result and compareResult
StoredResults(mm) == <<mm.dashboard.data, mm.compareResult>>

\* C1: in every reachable state the progress tracker is non-nil exactly
\* when the state is loading or compareLoading.
C1_ProgressIffLoading ==
    (m.progress # NilTracker) <=> (m.state \in LoadingStates)

\* C2: in every reachable state compareResult is set exactly when the
\* state is compareResult.
C2_CompareResultIffState ==
    (~m.compareResult.nil) <=> (m.state = stateCompareResult)

\* C3: in every reachable state the dashboard result is set exactly when
\* the state is dashboard or tree.
C3_DashboardResultIffState ==
    (m.dashboard.data.Repo # NilRepo) <=> (m.state \in {stateDashboard, stateTree})

\* the state a message is meaningful to
MeaningfulIn(mg) ==
    CASE mg.type = "AnalysisResult" -> {stateLoading}
      [] mg.type = "CompareResult"  -> {stateCompareLoading}
      [] mg.type = "string"         -> {stateDashboard}
      [] OTHER                      -> {}

\* C4: an AnalysisResult, a CompareResult or a string signal that
\* completes a Command while the session is in a state it is not
\* meaningful to is dropped: the state and the stored results stay as they
\* are and nothing is dispatched.
C4_MessagesGatedByState ==
    \A c \in BagToSet(inflight) : \A mg \in Completions(c) :
        (running /\ mg.type \in {"AnalysisResult", "CompareResult", "string"}
                 /\ m.state \notin MeaningfulIn(mg))
        => \A r \in {Update(m, mg, historyFile, NoChoice, TRUE)} :
              /\ r.m.state = m.state
              /\ StoredResults(r.m) = StoredResults(m)
              /\ r.cmds = <<>>

\* C5: whatever message completes a pipeline Command whose loading state
\* the session has already left, Update leaves the session as it is and
\* dispatches nothing.
C5_StaleMessagesDiscarded ==
    \A c \in BagToSet(inflight) : \A mg \in Completions(c) :
        (running /\ c.stale)
        => \A r \in {Update(m, mg, historyFile, NoChoice, TRUE)} :
              r.m = m /\ r.cmds = <<>> /\ r.disk = historyFile

\* the texts a buffer is tried with: empty, blank, NUL, an identifier with
\* and without blanks around it, with a trailing slash, without a slash,
\* and repository URLs
InputTexts ==
    {<<>>, <<" ">>, <<" ", " ">>, <<NUL>>, <<NUL, " ">>,
     <<"a", "/", "a">>, <<" ", "a", "/", "a", " ">>, <<"a", "/", "a", "/">>,
     <<"a">>, <<"a", "/">>, <<"/">>,
     GithubMarker \o <<"a", "/", "a">>,
     <<"x">> \o GithubMarker \o <<"a", "/", "a", "/">>,
     GithubMarker}

\* C6: in state input, whatever the buffer holds, Enter with a non-empty
\* sanitized buffer gives state loading and exactly one analyzeRepo Command
\* for the sanitized identifier; Enter with an empty sanitized buffer
\* keeps state input, sets err to the validation error and dispatches
\* nothing.
C6_EnterInInput ==
    m.state = stateInput =>
        \A text \in InputTexts \cup {m.input} :
            \A r \in {Update([m EXCEPT !.input = text], EnterKey, historyFile,
                             NoChoice, TRUE)} :
                \A clean \in {sanitizeRepoInput(text)} :
                    IF clean # <<>>
                    THEN /\ r.m.state = stateLoading
                         /\ r.cmds = <<AnalyzeCmd(clean)>>
                    ELSE /\ r.m.state = stateInput
                         /\ r.m.err = ErrValidation
                         /\ r.cmds = <<>>

\* C6 witness: Enter on a/a has moved the session to loading with the one
\* analyzeRepo Command for a/a in flight.
C6_Witness ==
    /\ m.state = stateLoading
    /\ m.input = <<"a", "/", "a">>
    /\ inflight = SetToBag({AnalyzeCmd(<<"a", "/", "a">>)})

\* C7: in state input, Enter on a buffer whose sanitized form is not a
\* well-formed owner/repo identifier keeps state input, sets err and
\* dispatches nothing.
C7_MalformedRejected ==
    (running /\ m.state = stateInput /\ ~WellFormed(sanitizeRepoInput(m.input)))
    => \A r \in {Update(m, EnterKey, historyFile, NoChoice, TRUE)} :
          /\ r.m.state = stateInput
          /\ r.m.err # NilErr
          /\ r.cmds = <<>>

\* C8: Enter in compareInput dispatches a compareRepos Command only when
\* both identifiers it is dispatched for are well-formed owner/repo
\* identifiers.
C8_CompareOnlyWellFormed ==
    (running /\ m.state = stateCompareInput)
    => \A r \in {Update(m, EnterKey, historyFile, NoChoice, TRUE)} :
          \A i \in DOMAIN r.cmds :
              r.cmds[i].kind = "compareRepos"
              => WellFormed(r.cmds[i].repo1) /\ WellFormed(r.cmds[i].repo2)

\* C9: every AnalysisResult with which an analyzeRepo Command in flight
\* completes moves the session to dashboard, is stored as the dashboard
\* result with the full name the Command fetched, leaves progress nil and
\* appends one entry for it to the history.
C9_EveryResultRecorded ==
    \A c \in BagToSet(inflight) : \A mg \in Completions(c) :
        (running /\ c.kind = "analyzeRepo" /\ mg.type = "AnalysisResult")
        => \A r \in {Update(m, mg, historyFile, NoChoice, TRUE)} :
              LET before == IF m.history.nil THEN historyFile ELSE m.history.Entries
              IN /\ r.m.state = stateDashboard
                 /\ r.m.dashboard.data = mg.result
                 /\ mg.result.Repo = c.repo1
                 /\ r.m.progress = NilTracker
                 /\ r.m.history.Entries = before \o <<c.repo1>>
                 /\ r.disk = before \o <<c.repo1>>

\* C10: in state loading, every error with which a Command in flight
\* completes moves the session to input, is stored as err, leaves progress
\* nil and dispatches nothing.
C10_ErrorConsumed ==
    (running /\ m.state = stateLoading)
    => \A c \in BagToSet(inflight) : \A mg \in Completions(c) :
           mg.type = "error"
           => \A r \in {Update(m, mg, historyFile, NoChoice, TRUE)} :
                 /\ r.m.state = stateInput
                 /\ r.m.err = mg.err
                 /\ r.m.progress = NilTracker
                 /\ r.cmds = <<>>

\* C10 witness: the analysis of a/a has failed at the commits fetch; the
\* session is back in input with that error and nothing in flight.
C10_Witness ==
    /\ m.state = stateInput
    /\ m.input = <<"a", "/", "a">>
    /\ m.err.prefix = "failed to get commits"
    /\ m.progress = NilTracker
    /\ inflight = EmptyBag

\* the session in compareInput with text in the buffer that is edited
WithEditedBuffer(mm, text) ==
    IF mm.compareStep = 0
    THEN [mm EXCEPT !.compareInput1 = text]
    ELSE [mm EXCEPT !.compareInput2 = text]

\* C11: in compareInput, whatever the edited buffer holds: Enter at step 0
\* on an empty buffer leaves state and compareStep as they are; on a
\* non-empty buffer it moves to step 1 and dispatches nothing; Enter at
\* step 1 on a non-empty buffer moves to compareLoading with exactly one
\* compareRepos Command; on an empty buffer it changes nothing.
C11_EnterInCompareInput ==
    (running /\ m.state = stateCompareInput) =>
        \A text \in InputTexts \cup {EditedBuffer(m)} :
            \A mm \in {WithEditedBuffer(m, text)} :
                \A r \in {Update(mm, EnterKey, historyFile, NoChoice, TRUE)} :
                    CASE mm.compareStep = 0 /\ text = <<>> ->
                           /\ r.m.state = stateCompareInput
                           /\ r.m.compareStep = 0
                           /\ r.cmds = <<>>
                      [] mm.compareStep = 0 /\ text # <<>> ->
                           /\ r.m.state = stateCompareInput
                           /\ r.m.compareStep = 1
                           /\ r.cmds = <<>>
                      [] mm.compareStep = 1 /\ text # <<>> ->
                           /\ r.m.state = stateCompareLoading
                           /\ Len(r.cmds) = 1
                           /\ r.cmds[1].kind = "compareRepos"
                           /\ r.cmds[1].repo1 = sanitizeRepoInput(mm.compareInput1)
                           /\ r.cmds[1].repo2 = sanitizeRepoInput(text)
                      [] mm.compareStep = 1 /\ text = <<>> ->
                           /\ r.m = mm
                           /\ r.cmds = <<>>
                           /\ r.disk = historyFile

\* C11 witness: Enter at step 1 on a/a has moved the session to
\* compareLoading with the one compareRepos Command for a/a and a/a in
\* flight.
C11_Witness ==
    /\ m.state = stateCompareLoading
    /\ m.compareStep = 1
    /\ m.compareInput2 = <<"a", "/", "a">>
    /\ inflight = SetToBag({CompareCmd(<<"a", "/", "a">>, <<"a", "/", "a">>)})

\* C12: in compareLoading, every CompareResult with which a Command in
\* flight completes moves the session to compareResult and is stored as
\* compareResult; every error moves the session to compareInput at step 0
\* and is stored as err, and compareResult is left as it was.
C12_CompareLoadingOutcome ==
    (running /\ m.state = stateCompareLoading)
    => \A c \in BagToSet(inflight) : \A mg \in Completions(c) :
           \A r \in {Update(m, mg, historyFile, NoChoice, TRUE)} :
               CASE mg.type = "CompareResult" ->
                      /\ r.m.state = stateCompareResult
                      /\ r.m.compareResult =
                             [nil |-> FALSE, Repo1 |-> mg.result, Repo2 |-> mg.result2]
                      /\ r.cmds = <<>>
                 [] mg.type = "error" ->
                      /\ r.m.state = stateCompareInput
                      /\ r.m.compareStep = 0
                      /\ r.m.err = mg.err
                      /\ r.m.compareResult = m.compareResult
                      /\ r.cmds = <<>>
                 [] OTHER -> TRUE

\* C12 witness: the comparison of a/a with a/a has failed at a repository
\* fetch; the session is back in compareInput at step 0 with that error,
\* no compareResult stored and nothing in flight.
C12_Witness ==
    /\ m.state = stateCompareInput
    /\ m.compareStep = 0
    /\ m.err = Err("failed to fetch", <<"a", "/", "a">>, CollabErr)
    /\ m.compareResult = NilCompare
    /\ inflight = EmptyBag

\* the states in which Escape is said to lead back to the parent state
EscapeStates ==
    {stateLoading, stateCompareLoading, stateInput, stateTree, stateHistory,
     stateHelp, stateSettings}

\* C13: in loading, compareLoading, input, tree, history, help and
\* settings, an Escape key press moves the session out of the state, to
\* menu or to the state it came from; in particular Escape leaves loading.
C13_EscapeLeaves ==
    (running /\ m.state \in EscapeStates)
    => \A r \in {Update(m, EscKey, historyFile, NoChoice, TRUE)} :
          /\ r.m.state # m.state
          /\ r.m.state \in {stateMenu, stateInput, stateCompareInput, stateDashboard}

\* C14: in dashboard with a result stored, the signal "refresh_data" moves
\* the session to loading and dispatches exactly one analyzeRepo Command,
\* for the repository of the stored result.
C14_RefreshReanalyzes ==
    (running /\ m.state = stateDashboard /\ m.dashboard.data.Repo # NilRepo)
    => \A r \in {Update(m, StringMsg("refresh_data"), historyFile, NoChoice, TRUE)} :
          /\ r.m.state = stateLoading
          /\ r.cmds = <<AnalyzeCmd(m.dashboard.data.Repo)>>
          /\ r.m.dashboard.data = m.dashboard.data

\* C14 witness: the result for a/a was on the dashboard when the refresh
\* signal arrived; the session is in loading with the one analyzeRepo
\* Command for a/a in flight.
C14_Witness ==
    /\ m.state = stateLoading
    /\ m.dashboard.data.Repo = <<"a", "/", "a">>
    /\ m.history.Entries = <<<<"a", "/", "a">>>>
    /\ inflight = SetToBag({AnalyzeCmd(<<"a", "/", "a">>)})

\* ------------------------------------------------------------------------
\* Properties of the pipelines
\* ------------------------------------------------------------------------

\* every fetch of the analysis of repoName succeeds under the script fails
AllFetchesOk(repoName, fails) ==
    \A i \in DOMAIN FetchOrder : GetOk(FetchOrder[i], repoName, fails)

\* C15: a closure that has run has returned one message, a result or an
\* error; analyzeRepo returns an AnalysisResult exactly when all five
\* fetches succeeded, and that result has every field populated; in every
\* other case it returns an error that carries no result.
C15_OneMessageAllOrNothing ==
    run.done =>
        /\ run.out.msg.type \in
               (IF run.kind = "analyzeRepo" THEN {"AnalysisResult", "error"}
                ELSE {"CompareResult", "error"})
        /\ run.kind = "analyzeRepo" =>
               IF AllFetchesOk(run.repo1, run.fails1)
               THEN /\ run.out.msg.type = "AnalysisResult"
                    /\ run.out.msg.result = Result(run.repo1, {})
                    /\ run.out.msg.err = NilErr
               ELSE /\ run.out.msg.type = "error"
                    /\ run.out.msg.err # NilErr
                    /\ run.out.msg.result = NilData

\* C15 witness: the analysis of a/a, with only the file-tree fetch
\* failing, has returned an error.
C15_Witness ==
    /\ run.done
    /\ run.kind = "analyzeRepo"
    /\ run.repo1 = <<"a", "/", "a">>
    /\ run.fails1 = {"fileTree"}
    /\ run.out.msg.type = "error"

\* the steps of the analysis in the order of the code: the five fetches,
\* then the computation of the scores
AnalysisSteps == FetchOrder \o <<"scores">>

\* C16: analyzeRepo invokes its fetches in the order repo, commits,
\* contributors, languages, fileTree and then computes the scores; a step
\* is invoked only after every step before it succeeded, so after a fetch
\* that fails no later fetch is invoked and the scores are not computed;
\* and a step is left out only for that reason.
C16_FetchesInOrder ==
    (run.done /\ run.kind = "analyzeRepo") =>
        \A calls \in {run.out.calls} :
            /\ Len(calls) <= Len(AnalysisSteps)
            /\ \A i \in DOMAIN calls : calls[i] = AnalysisSteps[i]
            /\ \A i \in DOMAIN calls : \A j \in 1..(i - 1) :
                   GetOk(calls[j], run.repo1, run.fails1)
            /\ \A k \in DOMAIN calls :
                   (calls[k] # "scores" /\ ~GetOk(calls[k], run.repo1, run.fails1))
                   => /\ Len(calls) = k
                      /\ \A i \in DOMAIN calls : calls[i] # "scores"
            /\ Len(calls) < Len(AnalysisSteps)
                   => \/ Len(Split(run.repo1, <<"/">>)) # 2 /\ calls = <<>>
                      \/ /\ calls # <<>>
                         /\ ~GetOk(calls[Len(calls)], run.repo1, run.fails1)

\* C16 witness: the analysis of a/a, with the contributors fetch and the
\* file-tree fetch failing, has invoked repo, commits and contributors
\* and nothing after them.
C16_Witness ==
    /\ run.done
    /\ run.kind = "analyzeRepo"
    /\ run.repo1 = <<"a", "/", "a">>
    /\ run.fails1 = {"contributors", "fileTree"}
    /\ run.out.calls = <<"repo", "commits", "contributors">>

\* C17: when a fetch of analyzeRepo fails, the error returned is wrapped
\* with a prefix that identifies the stage: the prefix is not empty, and
\* no run that fails at another fetch returns the same prefix.
C17_ErrorNamesStage ==
    (run.done /\ run.kind = "analyzeRepo" /\ run.out.msg.type = "error"
              /\ run.out.calls # <<>>)
    => /\ run.out.msg.err.prefix # ""
       /\ \A f \in AllScripts : \A o \in {analyzeRepo(run.repo1, f)} :
              (o.msg.type = "error" /\ o.calls # <<>>
                                   /\ o.calls[Len(o.calls)]
                                          # run.out.calls[Len(run.out.calls)])
              => o.msg.err.prefix # run.out.msg.err.prefix

\* the last collaborator call of a run
LastCall(o) == o.calls[Len(o.calls)]

\* the repository-metadata fetch of a side of the comparison fails
RepoFetchFails(r) ==
    \/ ~GetOk("repo", r.repo1, r.fails1)
    \/ ~GetOk("repo", r.repo2, r.fails2)

\* C18: when the repository-metadata fetch of a side of compareRepos
\* fails, the run returns an error and no CompareResult, the failed fetch
\* is its last call, and the error tells the side: no run on the same two
\* names that fails at the other side returns the same error.
C18_RepoFailureAborts ==
    (run.done /\ run.kind = "compareRepos" /\ run.out.calls # <<>>
              /\ RepoFetchFails(run))
    => /\ run.out.msg.type = "error"
       /\ run.out.msg.result = NilData /\ run.out.msg.result2 = NilData
       /\ LastCall(run.out) =
              (IF ~GetOk("repo", run.repo1, run.fails1) THEN "1:repo" ELSE "2:repo")
       /\ \A f1 \in {{}, {"repo"}} : \A f2 \in {{}, {"repo"}} :
              \A o \in {compareRepos(run.repo1, run.repo2, f1, f2)} :
                  (o.msg.type = "error" /\ LastCall(o) # LastCall(run.out))
                  => o.msg.err # run.out.msg.err

\* the calls a side of the comparison makes when nothing aborts it
SideCalls(side) ==
    <<side \o ":repo", side \o ":commits", side \o ":contributors",
      side \o ":languages", side \o ":fileTree", side \o ":scores">>

C20_SanitizeIdempotent ==
    (run.kind = "sanitize" /\ run.applied = 2)
    => run.text = sanitizeRepoInput(run.input)

\* the text after the occurrence of the host-prefix marker at position i
AfterMarkerAt(s, i) == SubSeq(s, i + Len(GithubMarker), Len(s))

\* the positions at which the host-prefix marker occurs in s
MarkerPositions(s) ==
    {i \in 1..(Len(s) - Len(GithubMarker) + 1) :
        SubSeq(s, i, i + Len(GithubMarker) - 1) = GithubMarker}

\* C21: for every input that, with its null bytes removed and the
\* whitespace around it trimmed, contains the marker github.com/, the
\* sanitizer returns what follows the marker, less one trailing slash;
\* the example URL gives acme/widget.
C21_HostPrefixStripped ==
    (run.kind = "sanitize" /\ run.applied = 1) =>
        \A trimmed \in {TrimSpace(RemoveAll(run.input, NUL))} :
            /\ MarkerPositions(trimmed) # {}
                   => \E i \in MarkerPositions(trimmed) :
                          run.text = TrimSuffix(AfterMarkerAt(trimmed, i), <<"/">>)
            /\ run.input = ExampleURL
                   => run.text = <<"a", "c", "m", "e", "/", "w", "i", "d", "g", "e", "t">>

\* ------------------------------------------------------------------------
\* Properties of the progress tracker
\* ------------------------------------------------------------------------

\* the stages GetAllStages() reports active
ActiveStages(t) == {i \in 1..t.count : GetAllStages(t)[i].IsActive}

\* C22: after any number of NextStage() calls on a tracker, also more
\* than it has stages, GetAllStages() reports at most one active stage,
\* one more call does not move the cursor backward, and the last stage
\* is reported complete only when NextStage() has been called at least
\* once for every stage.
C22_TrackerStages ==
    run.kind = "tracker" =>
        \A t \in {run.tracker} :
            /\ Cardinality(ActiveStages(t)) <= 1
            /\ NextStage(t).current >= t.current
            /\ t.current <= t.count
            /\ GetAllStages(t)[t.count].IsComplete => run.applied >= t.count
            /\ \A i \in 1..t.count :
                   GetAllStages(t)[i].IsComplete
                   => \A j \in 1..i : GetAllStages(t)[j].IsComplete

\* C22 witness: NextStage() has been called five times on a tracker of
\* three stages; the last stage is complete and no stage is active.
C22_Witness ==
    /\ run.kind = "tracker"
    /\ run.tracker.count = 3
    /\ run.applied = 5
    /\ GetAllStages(run.tracker)[3].IsComplete
    /\ ActiveStages(run.tracker) = {}

\* the steps of the analysis pipeline: the languages and the file tree are
\* fetched in one step, and the result is assembled in the last
PipelineSteps ==
    <<{"repo"}, {"commits"}, {"contributors"}, {"languages", "fileTree"},
      {"scores"}, {}>>

\* the step a collaborator call belongs to
StepOf(call) == CHOOSE k \in DOMAIN PipelineSteps : call \in PipelineSteps[k]

\* C23: a run of analyzeRepo calls NextStage() once for every step it
\* completed: k - 1 times when a fetch of step k failed, as many times as
\* there are steps when it succeeded; and on a tracker with fewer stages
\* the calls past the clamp position leave the cursor there.
C23_NextStagePerStep ==
    (run.done /\ run.kind = "analyzeRepo") =>
        \A o \in {run.out} :
            /\ o.msg.type = "AnalysisResult" => o.nextStages = Len(PipelineSteps)
            /\ (o.msg.type = "error" /\ o.calls # <<>>)
                   => o.nextStages = StepOf(LastCall(o)) - 1
            /\ (o.msg.type = "error" /\ o.calls = <<>>) => o.nextStages = 0
            /\ \A count \in 1..MaxStages : \A limit \in ClampPositions(count) :
                   AfterCalls(NewProgressTracker(count, limit), o.nextStages).current
                       = (IF o.nextStages <= limit THEN o.nextStages ELSE limit)

\* C23 witness: the analysis of a/a has failed at the file-tree fetch, in
\* step 4, after three calls of NextStage().
C23_Witness ==
    /\ run.done
    /\ run.kind = "analyzeRepo"
    /\ run.repo1 = <<"a", "/", "a">>
    /\ run.fails1 = {"fileTree"}
    /\ run.out.calls = FetchOrder
    /\ run.out.nextStages = 3

\* ------------------------------------------------------------------------
\* Further properties of the session
\* ------------------------------------------------------------------------

\* C24: no call of Update does disk I/O: whatever message completes a
\* Command in flight, the history file is after the call what it was
\* before it.
C24_UpdateDoesNoIO ==
    running =>
        \A c \in BagToSet(inflight) : \A mg \in Completions(c) :
            \A r \in {Update(m, mg, historyFile, NoChoice, TRUE)} :
                r.disk = historyFile

\* C25: the session starts in menu; in every state Ctrl+C returns the
\* quit Command and leaves every field as it is; the q key does the same
\* in menu and in no other state, and in input and compareInput it is
\* appended to the buffer that is edited.
C25_QuitKeys ==
    /\ NewMainModel.state = stateMenu
    /\ running =>
          /\ \A r \in {Update(m, CtrlCKey, historyFile, NoChoice, TRUE)} :
                 /\ r.quit
                 /\ r.cmds = <<QuitCmd>>
                 /\ r.m = m
                 /\ r.disk = historyFile
          /\ \A r \in {Update(m, LetterKey("q"), historyFile, NoChoice, TRUE)} :
                 /\ r.quit <=> m.state = stateMenu
                 /\ (\E i \in DOMAIN r.cmds : r.cmds[i] = QuitCmd) <=> m.state = stateMenu
                 /\ r.quit => r.m = m /\ r.disk = historyFile
                 /\ m.state \in TypingStates
                       => /\ r.m.state = m.state
                          /\ EditedBuffer(r.m) = EditedBuffer(m) \o <<"q">>

\* C25 witness: Ctrl+C was pressed in compareInput at the second
\* identifier; the program has quit with the session as it was.
C25_Witness ==
    /\ ~running
    /\ m.state = stateCompareInput
    /\ m.compareStep = 1
    /\ m.compareInput1 = <<"a", "/", "a">>

\* the key presses of the user in the session mm: a key, and what the menu
\* selects when the key is Enter in menu
UserInputs(mm) ==
    {<<k, NoChoice>> : k \in {k \in KeysOffered(mm) :
                                  ~(mm.state = stateMenu /\ k = EnterKey)}}
    \cup (IF mm.state = stateMenu
          THEN {<<EnterKey, choice>> : choice \in MenuChoices}
          ELSE {})

\* C26: after every key press that changes the state of the session, err
\* is nil: a transition that produces no error clears the error of an
\* earlier attempt.
C26_ErrorCleared ==
    running =>
        \A in \in UserInputs(m) :
            \A r \in {Update(m, in[1], historyFile, in[2], TRUE)} :
                (~r.quit /\ r.m.state # m.state) => r.m.err = NilErr

\* C27: after every call of Update the BackToMenu flag of the dashboard
\* and the Done flag of the tree are false; the call in which the
\* dashboard or the tree sets its flag is the call that acts on it and
\* resets it.
C27_FlagsConsumed ==
    /\ ~m.dashboard.BackToMenu
    /\ ~m.tree.Done
    /\ running =>
          \A k \in CommandKeys :
              \A r \in {Update(m, k, historyFile, NoChoice, TRUE)} :
                  /\ ~r.m.dashboard.BackToMenu
                  /\ ~r.m.tree.Done
                  /\ (m.state = stateDashboard
                          /\ DashboardUpdate(m.dashboard, k).d.BackToMenu)
                        => r.m.state = stateMenu
                  /\ (m.state = stateTree /\ TreeUpdate(m.tree, k).Done)
                        => r.m.state = stateDashboard

\* C27 witness: q was pressed on the dashboard showing a/a; the session
\* is back in menu with the flag reset and the input buffer cleared.
C27_Witness ==
    /\ m.state = stateMenu
    /\ m.dashboard.data.Repo = <<"a", "/", "a">>
    /\ m.input = <<>>
    /\ ~m.dashboard.BackToMenu
    /\ inflight = EmptyBag

\* ------------------------------------------------------------------------
\* Properties of the cache
\* ------------------------------------------------------------------------

\* the repositories that a Set() put in the index, that no Delete() of
\* theirs and no Clear() took out since, and that have not expired
Cached(c) == {r \in DOMAIN c.index.Entries : ~Expired(c, c.index.Entries[r])}

\* C28: with caching enabled, Get(r) of a repository r that was Set and
\* has neither expired nor been deleted or cleared reports found, and the
\* entry it returns carries the name r, whatever was Set under other names.
C28_CacheRoundTrip ==
    cache.config.Enabled =>
        \A r \in Cached(cache) :
            /\ Get(cache, r).found
            /\ Get(cache, r).entry.RepoName = r

\* the repositories whose Get() reports found and returns their own entry
FoundOwn(c) == {r \in Cached(c) : Get(c, r).found /\ Get(c, r).entry.RepoName = r}

\* C29: after Delete(r), whether or not the file could be removed, Get(r)
\* reports not found and HasCache(r) is false, and every other repository
\* that Get() found with its own entry before is still found with the
\* same entry.
C29_DeleteOnlyThatRepo ==
    \A r \in CacheRepos : \A removed \in BOOLEAN :
        \A d \in {Delete(cache, r, removed)} :
            /\ ~Get(d, r).found
            /\ ~HasCache(d, r)
            /\ \A other \in FoundOwn(cache) \ {r} : Get(d, other) = Get(cache, other)

\* C30: after Clear() on a cache holding any entries, whichever files
\* could be removed, GetStats().TotalRepos is 0, and for every repository
\* HasCache() is false and Get() reports not found.
C30_ClearEmpties ==
    \A removed \in SUBSET DOMAIN cache.repos :
        \A c \in {Clear(cache, removed)} :
            /\ GetStats(c).TotalRepos = 0
            /\ \A r \in CacheRepos : ~HasCache(c, r) /\ ~Get(c, r).found

\* Clear() of a cache that holds every repository, one of them expired and
\* another still found, empties the index although no file was removed
C30_Witness ==
    /\ DOMAIN cache.index.Entries = CacheRepos
    /\ ExpiredRepos(cache) # {}
    /\ FoundOwn(cache) # {}
    /\ \E c \in {Clear(cache, {})} :
           /\ c.repos # EmptyMap
           /\ GetStats(c).TotalRepos = 0

\* the repository names for which HasCache() is true
Names(c) == {r \in CacheRepos : HasCache(c, r)}

\* C31: HasCache() is true exactly for the names that Set stored and that
\* no Delete, Clear or CleanExpired took out since, expired or not: Set adds
\* its name when it stores, Delete takes out its name, Clear all names and
\* CleanExpired the expired ones; GetStats().TotalRepos is the number of
\* those names and equals ValidRepos + ExpiredRepos.
C31_IndexNames ==
    /\ GetStats(cache).TotalRepos = Cardinality(Names(cache))
    /\ GetStats(cache).TotalRepos = GetStats(cache).ValidRepos + GetStats(cache).ExpiredRepos
    /\ \A r \in CacheRepos :
           /\ \A x \in Analyses : \A written \in BOOLEAN :
                  Names(Set(cache, r, x, written).cache) =
                      IF cache.config.Enabled /\ cache.config.AutoCache /\ written
                      THEN Names(cache) \cup {r}
                      ELSE Names(cache)
           /\ \A removed \in BOOLEAN :
                  Names(Delete(cache, r, removed)) = Names(cache) \ {r}
    /\ \A removed \in SUBSET DOMAIN cache.repos : Names(Clear(cache, removed)) = {}
    /\ Names(CleanExpired(cache)) = Names(cache) \ ExpiredRepos(cache)

\* two names are in the index of an enabled cache, one expired and one
\* not, and setting the unexpired one again still counts two
C31_Witness ==
    /\ cache.config.Enabled /\ cache.config.AutoCache
    /\ GetStats(cache).TotalRepos = 2
    /\ GetStats(cache).ExpiredRepos = 1
    /\ \E r \in Cached(cache) :
           GetStats(Set(cache, r, "x", TRUE).cache).TotalRepos = 2

\* C32: Get() reports not found when caching is disabled or the expiry time
\* of the entry has passed; Set() stores nothing and returns no error when
\* caching is disabled or auto-cache is off; after SetEnabled(false) Get()
\* finds nothing, and after SetEnabled(true) following it Enabled is true
\* and Get() returns for every name what it returned before the two calls.
C32_DisabledAndExpired ==
    /\ \A r \in CacheRepos :
           (\/ ~cache.config.Enabled
            \/ r \in ExpiredRepos(cache)) => ~Get(cache, r).found
    /\ (~cache.config.Enabled \/ ~cache.config.AutoCache) =>
           \A r \in CacheRepos : \A x \in Analyses : \A written \in BOOLEAN :
               Set(cache, r, x, written) = [cache |-> cache, err |-> FALSE]
    /\ \A off \in {SetEnabled(cache, FALSE)} : \A on \in {SetEnabled(off, TRUE)} :
           /\ ~GetConfig(off).Enabled
           /\ GetConfig(on).Enabled
           /\ \A r \in CacheRepos :
                  /\ ~Get(off, r).found
                  /\ cache.config.Enabled => Get(on, r) = Get(cache, r)

\* caching is disabled while an unexpired entry and an expired one are
\* stored: Get() finds neither, and after SetEnabled(true) the unexpired
\* one is found again
C32_Witness ==
    /\ ~cache.config.Enabled
    /\ ExpiredRepos(cache) # {}
    /\ \E r \in Cached(cache) :
           /\ ~Get(cache, r).found
           /\ Get(SetEnabled(cache, TRUE), r).found
           /\ Get(SetEnabled(cache, TRUE), r).entry.RepoName = r

\* ------------------------------------------------------------------------
\* Properties of the favorites
\* ------------------------------------------------------------------------

NoTwoSameName(items) ==
    \A i, j \in DOMAIN items : items[i].RepoName = items[j].RepoName => i = j

\* C33: no two items have the same RepoName; Add(r) of a name not present
\* appends one item named r with UseCount 1 and keeps the others, and
\* Add(r) of a name present keeps the number of items and the other items
\* and raises the UseCount of the item named r by exactly 1.
C33_AddKeepsNamesDistinct ==
    /\ NoTwoSameName(favorites.Items)
    /\ \A r \in FavoriteRepos : \A a \in {FavoritesAdd(favorites, r)} :
           /\ NoTwoSameName(a.Items)
           /\ IF ~IsFavorite(favorites, r)
              THEN /\ Len(a.Items) = Len(favorites.Items) + 1
                   /\ SubSeq(a.Items, 1, Len(favorites.Items)) = favorites.Items
                   /\ a.Items[Len(a.Items)].RepoName = r
                   /\ a.Items[Len(a.Items)].UseCount = 1
              ELSE /\ Len(a.Items) = Len(favorites.Items)
                   /\ \A i \in DOMAIN favorites.Items :
                          IF favorites.Items[i].RepoName = r
                          THEN /\ a.Items[i].RepoName = r
                               /\ a.Items[i].UseCount = favorites.Items[i].UseCount + 1
                          ELSE a.Items[i] = favorites.Items[i]

\* two items are stored, one of them added or used more than once, and a
\* third name is not stored
C33_Witness ==
    /\ Len(favorites.Items) = 2
    /\ \E r \in FavoriteRepos :
           /\ UseCountOf(favorites, r) = 2
           /\ UseCountOf(FavoritesAdd(favorites, r), r) = 3
    /\ \E r \in FavoriteRepos :
           /\ ~IsFavorite(favorites, r)
           /\ Len(FavoritesAdd(favorites, r).Items) = 3

\* the items not named r, in their order
ItemsWithout(items, r) == SelectSeq(items, LAMBDA fav : fav.RepoName # r)

\* C34: Remove(r) leaves the items not named r, each as it was and in the
\* same order, and changes nothing when no item is named r; afterwards
\* IsFavorite(r) is false and IsFavorite() of every other name is as before.
C34_RemoveOnlyThatItem ==
    \A r \in FavoriteRepos : \A d \in {FavoritesRemove(favorites, r)} :
        /\ d.Items = ItemsWithout(favorites.Items, r)
        /\ ~IsFavorite(favorites, r) => d = favorites
        /\ ~IsFavorite(d, r)
        /\ \A other \in FavoriteRepos \ {r} :
               IsFavorite(d, other) = IsFavorite(favorites, other)

\* three items are stored with different use counts, and Remove() of the
\* first leaves the other two in their order
C34_Witness ==
    /\ Len(favorites.Items) = 3
    /\ favorites.Items[2].UseCount # favorites.Items[3].UseCount
    /\ FavoritesRemove(favorites, favorites.Items[1].RepoName).Items =
           <<favorites.Items[2], favorites.Items[3]>>

ItemsOf(items) == {items[i] : i \in DOMAIN items}

\* C35: GetTopFavorites(n) returns the empty list for n <= 0 and otherwise
\* min(n, number of items) of the items, none twice, in non-increasing
\* order of UseCount, and no item left out has a higher UseCount than one
\* returned; the stored list is as before.
C35_TopFavorites ==
    \A n \in TopCounts : \A o \in GetTopFavorites(favorites, n) :
        /\ o.f = favorites
        /\ n <= 0 => o.top = <<>>
        /\ n > 0 =>
               /\ Len(o.top) = IF n < Len(favorites.Items) THEN n
                               ELSE Len(favorites.Items)
               /\ ItemsOf(o.top) \subseteq ItemsOf(favorites.Items)
               /\ NoTwoSameName(o.top)
               /\ \A i, j \in DOMAIN o.top :
                      i < j => o.top[i].UseCount >= o.top[j].UseCount
               /\ \A out \in ItemsOf(favorites.Items) \ ItemsOf(o.top) :
                      \A in \in ItemsOf(o.top) : out.UseCount <= in.UseCount

\* three items are stored, the first with the lowest use count and the
\* other two with the same higher one, so that the top two are those two
\* in either order
C35_Witness ==
    /\ Len(favorites.Items) = 3
    /\ favorites.Items[1].UseCount < favorites.Items[2].UseCount
    /\ favorites.Items[2].UseCount = favorites.Items[3].UseCount
    /\ Cardinality(GetTopFavorites(favorites, 2)) = 2
    /\ \A o \in GetTopFavorites(favorites, 2) :
           ItemsOf(o.top) = {favorites.Items[2], favorites.Items[3]}

\* ------------------------------------------------------------------------
\* Properties of the session, continued
\* ------------------------------------------------------------------------

\* the keys that edit a buffer: typed and pasted runes, Backspace, Ctrl+U
\* and Ctrl+W
BufferKeys == {BackspaceKey, CtrlUKey, CtrlWKey, LetterKey("q")} \cup Pastes

\* C36: in compareInput compareStep is 0 or 1, and whatever the two buffers
\* hold a key that edits a buffer changes at most the buffer that
\* compareStep selects: the other buffer, compareStep, the state and every
\* other field stay as they are, and nothing is dispatched.
C36_EditedBufferOnly ==
    m.state = stateCompareInput =>
        /\ m.compareStep \in {0, 1}
        /\ \A text \in InputTexts : \A k \in BufferKeys :
               \A mm \in {WithEditedBuffer(m, text)} :
                   \A r \in {Update(mm, k, historyFile, NoChoice, TRUE)} :
                       /\ r.m = WithEditedBuffer(mm, EditedBuffer(r.m))
                       /\ r.cmds = <<>>
                       /\ ~r.quit
                       /\ r.disk = historyFile

\* the second buffer is edited while the first holds an identifier:
\* Backspace shortens the second and Ctrl+U empties it
C36_Witness ==
    /\ m.state = stateCompareInput
    /\ m.compareStep = 1
    /\ m.compareInput1 # <<>>
    /\ m.compareInput2 # <<>>
    /\ Update(m, BackspaceKey, historyFile, NoChoice, TRUE).m.compareInput2
           = DropLast(m.compareInput2)
    /\ Update(m, CtrlUKey, historyFile, NoChoice, TRUE).m.compareInput1
           = m.compareInput1

\* C37: in state history the cursor is within 0 .. max(0, number of
\* entries - 1), and no Enter or delete key has indexed outside the list.
C37_CursorInRange ==
    /\ m.state # statePanic
    /\ m.state = stateHistory =>
           /\ m.historyCursor >= 0
           /\ m.historyCursor <= IF Len(m.history.Entries) > 0
                                 THEN Len(m.history.Entries) - 1 ELSE 0

\* the cursor is on the last of three entries, where the delete key
\* removes that entry and moves the cursor up with the end of the list
C37_Witness ==
    /\ m.state = stateHistory
    /\ Len(m.history.Entries) = 3
    /\ m.historyCursor = 2
    /\ \E r \in {Update(m, LetterKey("d"), historyFile, NoChoice, TRUE)} :
           /\ Len(r.m.history.Entries) = 2
           /\ r.m.historyCursor = 1

\* the Analysis and Comparison Commands dispatched and not yet completed
PipelinesRunning ==
    {c \in BagToSet(inflight) : c.kind \in {"analyzeRepo", "compareRepos"}}

\* C38: at most one Analysis or Comparison Command is running.
C38_OneCommandRunning ==
    /\ Cardinality(PipelinesRunning) <= 1
    /\ \A c \in PipelinesRunning : CopiesIn(c, inflight) <= 1

\* the session is running in state s
In(s) == running /\ m.state = s

\* the session has left state s, or has quit
Left(s) == ~running \/ m.state # s

\* C39: with every message delivered, the session in loading or in
\* compareLoading leaves that state (or quits); it leaves loading for
\* dashboard or input, and compareLoading for compareResult, compareInput
\* or menu.
C39_LoadingEnds ==
    /\ In(stateLoading) ~> Left(stateLoading)
    /\ In(stateCompareLoading) ~> Left(stateCompareLoading)
    /\ [][/\ (In(stateLoading) /\ m'.state # stateLoading)
               => m'.state \in {stateDashboard, stateInput}
          /\ (In(stateCompareLoading) /\ m'.state # stateCompareLoading)
               => m'.state \in {stateCompareResult, stateCompareInput, stateMenu}]_vars

\* ------------------------------------------------------------------------
\* The analyze command of the command line, run once against a scripted
\* collaborator
\* ------------------------------------------------------------------------

\* the fetches of analyzeCmd.RunE in the order of its calls
CommandFetchOrder == <<"repo", "languages", "commits", "fileTree", "contributors">>

\* the report sections in the order RunE prints them
ReportSections ==
    <<"PrintRepo", "PrintLanguages", "PrintCommitActivity", "PrintHealth",
      "PrintGitHubAPIStatus", "PrintRecruiterSummary">>

\* One run of RunE: the error it returns, the fetches it made in order and
\* the sections it printed in order.
CommandRun(err, calls, printed) ==
    [err |-> err, calls |-> calls, printed |-> printed]

\* analyzeCmd.RunE with args[0] = arg and the --ext flag holding fileTypes
analyzeCmdRunE(arg, fails, fileTypes) ==
    LET parts == Split(arg, <<"/">>)
        ok(f) == GetOk(f, arg, fails)
    IN IF Len(parts) # 2
       THEN CommandRun(Err("repository must be in owner/repo format", <<>>, ""),
                       <<>>, <<>>)
       ELSE IF ~ok("repo")
       THEN CommandRun(Err("", <<>>, CollabErr),
                       SubSeq(CommandFetchOrder, 1, 1), <<>>)
       ELSE IF ~ok("languages")
       THEN CommandRun(Err("failed to get languages", <<>>, CollabErr),
                       SubSeq(CommandFetchOrder, 1, 2), <<>>)
       ELSE IF ~ok("commits")
       THEN CommandRun(Err("failed to get commits", <<>>, CollabErr),
                       SubSeq(CommandFetchOrder, 1, 3), <<>>)
       ELSE IF ~ok("fileTree")
       THEN CommandRun(Err("failed to get file tree", <<>>, CollabErr),
                       SubSeq(CommandFetchOrder, 1, 4), <<>>)
       ELSE IF ~ok("contributors")
       THEN CommandRun(Err("", <<>>, CollabErr), CommandFetchOrder, <<>>)
       ELSE CommandRun(NilErr, CommandFetchOrder,
                       ReportSections
                       \o (IF Len(fileTypes) > 0 THEN <<"PrintInfo">> ELSE <<>>))

\* the values of the --ext flag: not given, and one extension
FileTypes == {<<>>, <<"go">>}

\* the scripts of the command's collaborator: any set of its fetches fails
CommandScripts == SUBSET {CommandFetchOrder[i] : i \in DOMAIN CommandFetchOrder}

CommandInputs ==
    {[NoRun EXCEPT !.kind = "analyzeCmd", !.repo1 = n, !.fails1 = f, !.input = t] :
         n \in PipelineNames, f \in CommandScripts, t \in FileTypes}

InitCommand ==
    /\ m = NewMainModel
    /\ historyFile = <<>>
    /\ inflight = EmptyBag
    /\ running = TRUE
    /\ cache = NewCache
    /\ favorites = NewFavorites
    /\ run \in CommandInputs

\* cobra runs RunE with the one argument of the command line
RunCommand ==
    /\ run.kind = "analyzeCmd"
    /\ ~run.done
    /\ run' = [run EXCEPT !.done = TRUE,
                          !.out = analyzeCmdRunE(run.repo1, run.fails1, run.input)]
    /\ UNCHANGED <<m, historyFile, inflight, running, cache, favorites>>

NextCommand == RunCommand

SpecCommand == InitCommand /\ [][NextCommand]_vars

\* the fetches of the command that fail for arg
FailingFetches(arg, fails) ==
    {i \in DOMAIN CommandFetchOrder : ~GetOk(CommandFetchOrder[i], arg, fails)}

\* the fetches of the command up to and with the first one that fails for
\* arg, all five when none fails
FetchesMade(arg, fails) ==
    IF FailingFetches(arg, fails) = {}
    THEN CommandFetchOrder
    ELSE SubSeq(CommandFetchOrder, 1,
                CHOOSE i \in FailingFetches(arg, fails) :
                    \A j \in FailingFetches(arg, fails) : i <= j)

\* C40: the analyze command is fail-fast.  An argument that is not
\* owner/repo is rejected with an error before any fetch; for an owner/repo
\* argument the fetches are made in the order repository, languages,
\* commits, file tree, contributors up to the first that fails, whose error
\* is returned with nothing printed; and report sections are printed only
\* when all five fetches were made and none failed.
C40_CommandFailFast ==
    (run.kind = "analyzeCmd" /\ run.done) =>
        /\ ~WellFormed(run.repo1) =>
               /\ run.out.err # NilErr
               /\ run.out.calls = <<>>
               /\ run.out.printed = <<>>
        /\ WellFormed(run.repo1) =>
               /\ run.out.calls = FetchesMade(run.repo1, run.fails1)
               /\ (run.out.err = NilErr) = (FailingFetches(run.repo1, run.fails1) = {})
               /\ FailingFetches(run.repo1, run.fails1) # {} =>
                      /\ run.out.err.cause = CollabErr
                      /\ run.out.printed = <<>>
        /\ run.out.printed # <<>> =>
               /\ run.out.calls = CommandFetchOrder
               /\ FailingFetches(run.repo1, run.fails1) = {}
               /\ SubSeq(run.out.printed, 1, Len(ReportSections)) = ReportSections

====
